---- MODULE Spec2Model ----
(***************************************************************************)
(* Discovery registry of go.model-orchestrator                             *)
(* (internal/discovery/discovery.go): the copy-on-write snapshot, the      *)
(* consumeEntries/observe goroutine, the pruneLoop/pruneStale goroutine,   *)
(* the subscriber set with its lossy fan-out, Start/Stop, and the callers  *)
(* that read snapshots and events.                                         *)
(*                                                                         *)
(* Mediator and HTTP API (internal/mediator/mediator.go, package api):     *)
(* the roster collectTools builds from a snapshot and the peers' answers   *)
(* to /tools/list, the handling of one request by the api.Server, and the  *)
(* loop of HandleChat between the upstream model and the peers' tools.     *)
(* The peers' own servers (the HTTP-methods server and the agent wrapper)  *)
(* answer one POST /tools/call.                                            *)
(* Strings that are sliced, compared or rewritten are sequences of         *)
(* one-character strings.                                                  *)
(*                                                                         *)
(* Time is counted in units of 15 s (the default prune interval).         *)
(* Pointers are modelled by identities: every ServerInfo carries the       *)
(* identity of its struct (rid) and of its Text map (tid); a write through *)
(* a pointer changes every record of the state with that identity.         *)
(***************************************************************************)
EXTENDS Integers, Sequences, FiniteSets, TLC

\* ---------------------------------------------------------------- bounds
MaxTime == 4
MaxObserve == 2
MaxStarts == 2
MaxTools == 3
MaxRounds == 3
MaxCalls == 3
MaxLen == 3
MaxStops == 2

\* ------------------------------------------------------ program constants
EntryTTL == 3
PruneInterval == 1

EventAdded == "added"
EventUpdated == "updated"
EventRemoved == "removed"

ServerKindTool == <<"t", "o", "o", "l">>
ServerKindAgentWrapper == <<"a", "g", "e", "n", "t", "-", "w", "r", "a", "p", "p", "e", "r">>
ServerKindOrchestrator == <<"o", "r", "c", "h", "e", "s", "t", "r", "a", "t", "o", "r">>

\* ------------------------------------------------------------ input sets
InstSeq == <<<<"x">>, <<"y">>>>
Instances == {InstSeq[n] : n \in DOMAIN InstSeq}
Channels == {"c1", "c2"}
\* the subscribers that read their channel; the other one is slow: it
\* subscribes before Start, never reads and never unsubscribes
Readers == {"c2"}
\* the buffer argument each subscriber passes to Subscribe
BufferArg == [c \in Channels |-> IF c = "c1" THEN 0 ELSE 2]

RoleKey == <<"r", "o", "l", "e">>
TxtRoleTool == RoleKey \o <<"=">> \o ServerKindTool
TxtRoleUpper == RoleKey \o <<"=">> \o <<" ", "T", "o", "o", "l">>
TxtNoEquals == <<"v", "1">>
\* entry.Text of the browse entries: lists of TXT records (strings as
\* sequences of characters)
EntryText == [k \in Instances |->
                 IF k = <<"x">> THEN <<TxtRoleTool>> ELSE <<TxtNoEquals, TxtRoleUpper>>]
\* the browse entries: each peer advertises its own TXT records
Entries == {[Instance |-> k, Text |-> EntryText[k]] : k \in Instances}

MutatedText == [k \in {<<"m">>} |-> <<"!">>]

\* the peers the mediator finds in the snapshot it lists; the first two
\* names differ and have the same slug
PeerAb == <<"A", "-", "b">>
PeerA_b == <<"a", "_", "b">>
PeerC == <<"c">>
PeerSeq == <<PeerAb, PeerA_b, PeerC>>
Peers == {PeerSeq[n] : n \in DOMAIN PeerSeq}
\* the key sets of those snapshots
PeerSets == {{}, {PeerAb}, {PeerC}, {PeerAb, PeerA_b}, {PeerAb, PeerC}}
TxtRoleAgentWrapper == RoleKey \o <<"=">> \o ServerKindAgentWrapper
TxtRoleOrchestrator == RoleKey \o <<"=">> \o ServerKindOrchestrator
\* the TXT records a peer may advertise
PeerText == [k \in Peers |->
                IF k = PeerAb THEN {<<TxtRoleTool>>, <<TxtRoleAgentWrapper>>}
                ELSE {<<TxtNoEquals, TxtRoleUpper>>, <<TxtRoleOrchestrator>>}]
\* the tool names of the peers' catalogues
ToolRun == <<"r", "u", "n">>
ToolRun2 == <<"r", "u", "n", "_", "_", "2">>
ToolNames == {ToolRun, ToolRun2}
\* Options.AllowedKinds as passed to mediator.New
AllowedKindsOptions ==
    {<<>>, <<<<" ">>, <<" ", "T", "o", "o", "l">>>>,
     <<ServerKindOrchestrator, ServerKindTool>>,
     <<ServerKindTool, ServerKindAgentWrapper>>}
\* Options.ModelName, and a model name the mediator does not serve
ModelName == "go-agent-1"
OtherModel == "gpt-4"

\* ------------------------------------------------------------- variables
VARIABLES
    now,          \* the wall clock read by time.Now()
    started,      \* Start has run (d.cancel is set, the goroutines exist)
    cancelled,    \* ctx is done (d.cancel() was called)
    snapshot,     \* the map held by d.snapshot (atomic.Value)
    muHolder,     \* holder of d.mu: "none", "observe" or "prune"
    consume,      \* the consumeEntries goroutine: position and locals
    prune,        \* the pruneLoop goroutine: position and locals
    ticker,       \* the time.Ticker of pruneLoop: next firing time, buffered tick
    browse,       \* the Browse goroutine: "off", "running", "returned" (entries closed)
    subscribers,  \* d.subscribers: the registered channels
    chans,        \* every channel made by Subscribe: capacity, buffer, closed
    stop,         \* the caller of Stop: "idle", "waiting", "done"
    nObserved,    \* history: how many entries observe has been called with
    lastEvent,    \* history: per instance, type and seq of its last event
                  \*   (an event's seq is its number in the order of broadcast)
    panicked,     \* history: a send on, or close of, a closed channel
    stopAt,       \* history: the events broadcast before Stop returned (-1 before)
    loops,        \* how many times Start has launched its three goroutines
    allowedKinds, \* m.allowedKinds of the mediator (a set, {} for nil)
    openaiClient, \* m.openaiClient: "configured", or "nil"
    catalogue,    \* what /tools/list of each peer answers to toolClient.ListTools
    http,         \* the HTTP request the api.Server is serving, and its response
    turn,         \* HandleChat: the roster of the turn and its loop
    upstream,     \* the requests sent to the upstream chat provider, in order
    collected,    \* history: what collectTools returned to the request being
                  \*   served (a set of at most one element), with the peers
                  \*   toolClient.ListTools was called on
    ctx,          \* r.Context() of the request being served
    dispatched,   \* the /tools/call requests sent to the peers, in order
    peer,         \* a peer's tool server: the /tools/call request it serves
    pure,         \* a function of strings being applied: input and results
    announcer     \* an Announcer: its registration, its sync.Once and the
                  \*   callers of Stop

regVars == <<now, started, cancelled, snapshot, muHolder, consume, prune,
             ticker, browse, subscribers, chans, stop, nObserved, lastEvent,
             panicked, stopAt, loops>>

medVars == <<allowedKinds, openaiClient, catalogue, http, turn, upstream, collected, ctx,
             dispatched, peer>>

libVars == <<pure, announcer>>

vars == <<regVars, medVars, libVars>>

\* ------------------------------------------------------- string helpers
LowerChar(c) ==
    CASE c = "A" -> "a" [] c = "R" -> "r" [] c = "T" -> "t" [] OTHER -> c

ToLower(s) == [n \in DOMAIN s |-> LowerChar(s[n])]

\* the white space strings.TrimSpace cuts that the inputs have
Whitespace == {" ", "\t"}

RECURSIVE TrimSpace(_)
TrimSpace(s) ==
    IF s = <<>> THEN s
    ELSE IF Head(s) \in Whitespace THEN TrimSpace(Tail(s))
    ELSE IF s[Len(s)] \in Whitespace THEN TrimSpace(SubSeq(s, 1, Len(s) - 1))
    ELSE s

\* a split at the last '='
parseTxtRecordLast(txt) ==
    LET eqs == {n \in DOMAIN txt : txt[n] = "="} IN
    IF eqs = {} THEN <<>>
    ELSE LET n == CHOOSE m \in eqs : \A o \in eqs : m >= o
         IN  <<SubSeq(txt, 1, n - 1), SubSeq(txt, n + 1, Len(txt))>>

\* parseTxtRecord: split at the first '='; <<>> (nil) when there is none
parseTxtRecord(txt) ==
    LET eqs == {n \in DOMAIN txt : txt[n] = "="} IN
    IF eqs = {} THEN <<>>
    ELSE LET n == CHOOSE m \in eqs : \A o \in eqs : m <= o
         IN  <<SubSeq(txt, 1, n - 1), SubSeq(txt, n + 1, Len(txt))>>

\* the textMap loop of observe: later records overwrite earlier ones
RECURSIVE textMapOf(_)
textMapOf(text) ==
    IF text = <<>> THEN <<>>
    ELSE LET rest == textMapOf(SubSeq(text, 1, Len(text) - 1))
             kv == parseTxtRecord(text[Len(text)])
         IN  IF Len(kv) = 2
             THEN [k \in DOMAIN rest \cup {kv[1]} |->
                      IF k = kv[1] THEN kv[2] ELSE rest[k]]
             ELSE rest

classifyKind(text) ==
    LET role == IF RoleKey \in DOMAIN text
                THEN ToLower(TrimSpace(text[RoleKey])) ELSE <<>>
    IN  IF role = <<>> THEN ServerKindTool ELSE role

\* ------------------------------------------------------ object identities
Records(m) == {m[k] : k \in DOMAIN m}

BufferedRecords(c) == {chans[c].buf[n].Server : n \in 1..Len(chans[c].buf)}

\* the ServerInfo values the registry's goroutines hold: the stored map and
\* the locals of observe and pruneStale (an optional value is a set of at
\* most one element)
RegistryRecords ==
    Records(snapshot) \cup consume.srv \cup Records(consume.updated)
        \cup Records(prune.clone)

\* every ServerInfo some goroutine or caller can still reach
LiveRecords == RegistryRecords \cup UNION {BufferedRecords(c) : c \in Channels}

Ids(recs) == {r.rid : r \in recs} \cup {r.tid : r \in recs}

UsedIds == Ids(LiveRecords)

Rank(k) ==
    LET all == InstSeq \o PeerSeq
    IN  CHOOSE n \in DOMAIN all : all[n] = k

\* allocation by a goroutine of the registry: the n-th identity no live
\* object has
RECURSIVE NthFree(_, _)
NthFree(n, from) ==
    IF <<"t", from>> \in UsedIds THEN NthFree(n, from + 1)
    ELSE IF n = 1 THEN <<"t", from>>
    ELSE NthFree(n - 1, from + 1)

\* d.snapshot.Store(m). Identities are only ever compared, so the records of
\* the stored map are renumbered by key when nothing but the maps being
\* swapped refers to them, which keeps equal heaps equal states
Stored(m) ==
    LET others == consume.srv
                      \cup UNION {BufferedRecords(c) : c \in Channels}
        private == /\ Ids(Records(m) \cup Records(snapshot)) \cap Ids(others) = {}
                   /\ \A r \in Records(m) : r.rid = r.tid
                   /\ \A k, l \in DOMAIN m : k # l => m[k].rid # m[l].rid
    IN  IF private
        THEN [k \in DOMAIN m |->
                 [m[k] EXCEPT !.rid = <<"s", Rank(k)>>, !.tid = <<"s", Rank(k)>>]]
        ELSE m

\* -------------------------------------------------------- pure functions
\* a clone that copies the struct and keeps the Text map of its source
cloneServerInfoShallow(in, id) == [in EXCEPT !.rid = id]

\* cloneServerInfo: a new struct (info := *in) and a new Text map; id is
\* the identity of the allocation
cloneServerInfo(in, id) == [in EXCEPT !.rid = id, !.tid = id]

\* cloneServers: a new map holding a clone of every value; ids[k] is the
\* identity of the clone made for key k
cloneServers(in, ids) == [k \in DOMAIN in |-> cloneServerInfo(in[k], ids[k])]

RegistryIds(m) == [k \in DOMAIN m |-> NthFree(Rank(k), 1)]
CallerIds(m) == [k \in DOMAIN m |-> <<"v", Rank(k)>>]

\* ServersSnapshot: what a call returns in the current state
ServersSnapshot == cloneServers(snapshot, CallerIds(snapshot))

\* the capacity Subscribe gives the channel
SubscribeBuffer(buffer) == IF buffer <= 0 THEN 1 ELSE buffer

\* a send that puts the event in front of the buffered ones
SendPrepend(ch, event) ==
    IF Len(ch.buf) < ch.cap THEN {[ch EXCEPT !.buf = <<event>> \o @]} ELSE {ch}

\* a plain send (ch <- event): no default case, so a full channel leaves the
\* select nothing to proceed with
SendBlocking(ch, event) ==
    IF Len(ch.buf) < ch.cap THEN {[ch EXCEPT !.buf = Append(@, event)]} ELSE {}

\* the select of broadcast on one channel, as the set of ways it can
\* proceed: the send when there is room, else the default case (drop)
SendNonBlocking(ch, event) ==
    IF Len(ch.buf) < ch.cap THEN {[ch EXCEPT !.buf = Append(@, event)]} ELSE {ch}

\* the channels broadcast ranges over (a send on a closed one panics)
Targets == {c \in subscribers : ~chans[c].closed}

\* broadcast: under subMu.RLock the event goes to every registered channel
broadcast(event) ==
    [c \in Channels |->
        IF c \in Targets
        THEN CHOOSE ch \in SendNonBlocking(chans[c], event) : TRUE
        ELSE chans[c]]

Max(S) == CHOOSE n \in S : \A m \in S : m <= n

\* how many events were broadcast so far
nEmitted == Max({lastEvent[k].seq : k \in Instances})

\* the event value built at a broadcast site
Event(type, srv) ==
    [Type |-> type, seq |-> nEmitted + 1,
     Server |-> cloneServerInfo(srv, <<"e", nEmitted + 1>>)]

\* a broadcast site: the call and its trace in the history variables
Emit(type, srv) ==
    /\ \A c \in Targets : SendNonBlocking(chans[c], Event(type, srv)) # {}
    /\ chans' = broadcast(Event(type, srv))
    /\ lastEvent' = [lastEvent EXCEPT ![srv.Instance] =
                        [Type |-> type, seq |-> nEmitted + 1]]
    /\ panicked' = (panicked \/ \E c \in subscribers : chans[c].closed)

\* ------------------------------------------------------------------ Init
NewChan == [made |-> FALSE, cap |-> 0, buf |-> <<>>, closed |-> FALSE]

\* the registry as New leaves it
InitRegistry ==
    /\ now = 0
    /\ started = FALSE
    /\ cancelled = FALSE
    /\ snapshot = <<>>
    /\ muHolder = "none"
    /\ consume = [pc |-> "off", srv |-> {}, updated |-> <<>>]
    /\ prune = [pc |-> "off", threshold |-> 0, clone |-> <<>>, todo |-> {}]
    /\ ticker = [next |-> 0, pending |-> FALSE]
    /\ browse = "off"
    /\ subscribers = {}
    /\ chans = [c \in Channels |-> NewChan]
    /\ stop = "idle"
    /\ nObserved = 0
    /\ lastEvent = [k \in Instances |-> [Type |-> "none", seq |-> 0]]
    /\ panicked = FALSE
    /\ stopAt = -1
    /\ loops = 0

\* no request is being served
HttpIdle == [pc |-> "idle", route |-> "none", req |-> <<>>, status |-> 0,
             body |-> <<>>]

\* HandleChat is not running
TurnIdle == [pc |-> "off", toolParams |-> <<>>, meta |-> <<>>,
             warned |-> FALSE, rounds |-> 0, conversation |-> <<>>,
             pending |-> <<>>]

\* the context of a request: not cancelled, and without a deadline
Background == [done |-> FALSE, deadline |-> "none"]

\* no /tools/call request is being served by a peer
PeerIdle == [pc |-> "idle", server |-> "none", req |-> <<>>, status |-> 0,
             body |-> <<>>]

\* the registry alone: the mediator has no peers to list and serves nothing
\* no function is being applied
PureIdle == [fn |-> "none", input |-> <<>>, outs |-> <<>>]

\* no Announcer has been made
AnnouncerIdle ==
    [server |-> "nil", done |-> FALSE, m |-> "none", shutdowns |-> 0,
     pc |-> <<>>, calls |-> <<>>]

LibIdle ==
    /\ pure = PureIdle
    /\ announcer = AnnouncerIdle

Init ==
    /\ InitRegistry
    /\ LibIdle
    /\ allowedKinds = {}
    /\ openaiClient = "configured"
    /\ catalogue = <<>>
    /\ http = HttpIdle
    /\ turn = TurnIdle
    /\ upstream = <<>>
    /\ collected = {}
    /\ ctx = Background
    /\ dispatched = <<>>
    /\ peer = PeerIdle

\* --------------------------------------------------------------- actions
\* the steps that take no time on the model's clock: a goroutine of the
\* registry is inside a handler, has a ready case in its select (ctx done,
\* entries closed, a tick due), or Stop is waiting for the goroutines
Busy ==
    \/ consume.pc \in {"lock", "store"}
    \/ consume.pc = "select" /\ (cancelled \/ browse = "returned")
    \/ prune.pc \in {"lock", "range"}
    \/ prune.pc = "select" /\ (cancelled \/ ticker.pending \/ now >= ticker.next)
    \/ stop = "waiting"

\* time passes (the clock is followed from Start until Stop is called)
Tick ==
    /\ now < MaxTime
    /\ started
    /\ stop = "idle"
    /\ ~Busy
    /\ now' = now + 1
    /\ UNCHANGED <<started, cancelled, snapshot, muHolder, consume, prune,
                   ticker, browse, subscribers, chans, stop, nObserved,
                   lastEvent, panicked, stopAt, loops, medVars,
                   libVars>>

\* Start: the caller starts the registry once; the three goroutines exist
\* and pruneLoop's ticker first fires one interval from now
Start ==
    /\ ~started
    /\ started' = TRUE
    /\ loops' = 1
    /\ consume' = [consume EXCEPT !.pc = "select"]
    /\ prune' = [prune EXCEPT !.pc = "select"]
    /\ ticker' = [next |-> now + PruneInterval, pending |-> FALSE]
    /\ browse' = "running"
    /\ UNCHANGED <<now, cancelled, snapshot, muHolder, subscribers, chans,
                   stop, nObserved, lastEvent, panicked, stopAt, medVars,
                   libVars>>

\* Start called on a started registry: nothing in Start tells, so it sets
\* d.cancel again, launches three more goroutines and returns nil. (The
\* goroutines of a second Start are counted here, their steps not followed.)
StartAgain ==
    /\ started
    /\ loops < MaxStarts
    /\ loops' = loops + 1
    /\ UNCHANGED <<now, started, cancelled, snapshot, muHolder, consume,
                   prune, ticker, browse, subscribers, chans, stop,
                   nObserved, lastEvent, panicked, stopAt, medVars,
                   libVars>>

\* resolver.Browse returns and the goroutine closes the entries channel.
\* (Only consumeEntries, in its select, can tell; once ctx is done the three
\* goroutines return independently, and the model takes these returns in
\* one order: consumeEntries, Browse, pruneLoop.)
BrowseReturn ==
    /\ browse = "running"
    /\ consume.pc = IF cancelled THEN "exited" ELSE "select"
    /\ browse' = "returned"
    /\ UNCHANGED <<now, started, cancelled, snapshot, muHolder, consume,
                   prune, ticker, subscribers, chans, stop, nObserved,
                   lastEvent, panicked, stopAt, loops, medVars,
                   libVars>>

\* consumeEntries receives an entry; observe reads the clock and builds srv.
\* (The peers are first seen in the order of InstSeq: observe treats every
\* key alike, so the other orders are these with the names exchanged.)
ObserveStart(entry) ==
    /\ consume.pc = "select"
    /\ browse = "running"
    /\ nObserved < MaxObserve
    /\ \A n \in 1..(Rank(entry.Instance) - 1) : lastEvent[InstSeq[n]].Type # "none"
    /\ nObserved' = nObserved + 1
    /\ LET textMap == textMapOf(entry.Text)
           srv == [Instance |-> entry.Instance,
                   Kind |-> classifyKind(textMap),
                   LastSeen |-> now,
                   Text |-> textMap,
                   rid |-> NthFree(1, 1), tid |-> NthFree(1, 1)]
       IN  consume' = [pc |-> "lock", srv |-> {srv}, updated |-> <<>>]
    /\ UNCHANGED <<now, started, cancelled, snapshot, muHolder, prune,
                   ticker, browse, subscribers, chans, stop, lastEvent,
                   panicked, stopAt, loops, medVars,
                   libVars>>

\* consumeEntries receives a nil entry and continues
ConsumeNilEntry ==
    /\ consume.pc = "select"
    /\ browse = "running"
    /\ UNCHANGED vars

\* an observe that reports every observation as a new peer
observeEventTypeAdded(exists) == EventAdded

\* the event type observe broadcasts
observeEventType(exists) == IF exists THEN EventUpdated ELSE EventAdded

\* an updateSnapshot that loads the map without waiting for d.mu
ObserveModifyUnlocked ==
    /\ consume.pc = "lock"
    /\ muHolder' = "observe"
    /\ LET srv == CHOOSE r \in consume.srv : TRUE
           current == snapshot
           exists == srv.Instance \in DOMAIN current
           clone == cloneServers(current, RegistryIds(current))
           updated == [k \in DOMAIN clone \cup {srv.Instance} |->
                          IF k = srv.Instance THEN srv ELSE clone[k]]
       IN  /\ consume' = [pc |-> "store", srv |-> {}, updated |-> updated]
           /\ Emit(observeEventType(exists), srv)
    /\ UNCHANGED <<now, started, cancelled, snapshot, prune, ticker, browse,
                   subscribers, stop, nObserved, stopAt, loops, medVars,
                   libVars>>

\* updateSnapshot takes d.mu and loads the map; the modifier of observe
\* clones it, puts srv under its key and broadcasts added or updated
ObserveModify ==
    /\ consume.pc = "lock"
    /\ muHolder = "none"
    /\ muHolder' = "observe"
    /\ LET srv == CHOOSE r \in consume.srv : TRUE
           current == snapshot
           exists == srv.Instance \in DOMAIN current
           clone == cloneServers(current, RegistryIds(current))
           updated == [k \in DOMAIN clone \cup {srv.Instance} |->
                          IF k = srv.Instance THEN srv ELSE clone[k]]
       IN  /\ consume' = [pc |-> "store", srv |-> {}, updated |-> updated]
           /\ Emit(observeEventType(exists), srv)
    /\ UNCHANGED <<now, started, cancelled, snapshot, prune, ticker, browse,
                   subscribers, stop, nObserved, stopAt, loops, medVars,
                   libVars>>

\* updateSnapshot stores the modifier's map and releases d.mu
ObserveStore ==
    /\ consume.pc = "store"
    /\ snapshot' = Stored(consume.updated)
    /\ muHolder' = "none"
    /\ consume' = [pc |-> "select", srv |-> {}, updated |-> <<>>]
    /\ UNCHANGED <<now, started, cancelled, prune, ticker, browse,
                   subscribers, chans, stop, nObserved, lastEvent, panicked,
                   stopAt, loops, medVars,
                   libVars>>

\* consumeEntries returns: ctx is done or the entries channel is closed
ConsumeExit ==
    /\ consume.pc = "select"
    /\ cancelled \/ browse = "returned"
    /\ consume' = [consume EXCEPT !.pc = "exited"]
    /\ UNCHANGED <<now, started, cancelled, snapshot, muHolder, prune,
                   ticker, browse, subscribers, chans, stop, nObserved,
                   lastEvent, panicked, stopAt, loops, medVars,
                   libVars>>

\* the runtime fires the ticker: a tick is buffered unless one is waiting
TickerFire ==
    /\ prune.pc \notin {"off", "exited"}
    /\ now >= ticker.next
    /\ ticker' = [next |-> ticker.next + PruneInterval, pending |-> TRUE]
    /\ UNCHANGED <<now, started, cancelled, snapshot, muHolder, consume,
                   prune, browse, subscribers, chans, stop, nObserved,
                   lastEvent, panicked, stopAt, loops, medVars,
                   libVars>>

\* a threshold one prune interval too early
pruneThresholdEarly == now - EntryTTL - PruneInterval

\* threshold := time.Now().Add(-d.opts.EntryTTL)
pruneThreshold == now - EntryTTL

\* pruneLoop receives a tick; pruneStale computes its threshold
PruneStart ==
    /\ prune.pc = "select"
    /\ ticker.pending
    /\ ticker' = [ticker EXCEPT !.pending = FALSE]
    /\ prune' = [prune EXCEPT !.pc = "lock", !.threshold = pruneThreshold]
    /\ UNCHANGED <<now, started, cancelled, snapshot, muHolder, consume,
                   browse, subscribers, chans, stop, nObserved, lastEvent,
                   panicked, stopAt, loops, medVars,
                   libVars>>

\* updateSnapshot takes d.mu and loads the map; an empty map is stored back
\* as it is, any other is cloned for the range loop
PruneModify ==
    /\ prune.pc = "lock"
    /\ muHolder = "none"
    /\ IF DOMAIN snapshot = {}
       THEN /\ prune' = [prune EXCEPT !.pc = "select"]
            /\ muHolder' = "none"
       ELSE /\ prune' = [prune EXCEPT !.pc = "range",
                             !.clone = cloneServers(snapshot, RegistryIds(snapshot)),
                             !.todo = DOMAIN snapshot]
            /\ muHolder' = "prune"
    /\ UNCHANGED <<now, started, cancelled, snapshot, consume, ticker,
                   browse, subscribers, chans, stop, nObserved, lastEvent,
                   panicked, stopAt, loops, medVars,
                   libVars>>

\* a comparison that keeps a record one unit past the threshold
StaleLate(info, threshold) == info.LastSeen + 1 < threshold

\* a comparison that takes a record at the threshold for stale
StaleAtThreshold(info, threshold) == info.LastSeen <= threshold

\* info.LastSeen.Before(threshold)
Stale(info, threshold) == info.LastSeen < threshold

\* one iteration of the range loop that finds a stale record (in the order
\* the map iteration happens to take): broadcast removed and delete the key
PruneRemove(key) ==
    /\ prune.pc = "range"
    /\ key \in prune.todo
    /\ Stale(prune.clone[key], prune.threshold)
    /\ Emit(EventRemoved, prune.clone[key])
    /\ prune' = [prune EXCEPT
                    !.clone = [k \in DOMAIN prune.clone \ {key} |-> prune.clone[k]],
                    !.todo = @ \ {key}]
    /\ UNCHANGED <<now, started, cancelled, snapshot, muHolder, consume,
                   ticker, browse, subscribers, stop, nObserved, stopAt,
                   loops, medVars,
                   libVars>>

\* a pass that ends without storing its map
PruneStoreLost ==
    /\ prune.pc = "range"
    /\ \A key \in prune.todo : ~Stale(prune.clone[key], prune.threshold)
    /\ muHolder' = "none"
    /\ prune' = [prune EXCEPT !.pc = "select", !.clone = <<>>, !.todo = {}]
    /\ UNCHANGED <<now, started, cancelled, snapshot, consume, ticker,
                   browse, subscribers, chans, stop, nObserved, lastEvent,
                   panicked, stopAt, loops, medVars,
                   libVars>>

\* the range loop is over (every key left is fresh): updateSnapshot stores
\* the clone and releases d.mu
PruneStore ==
    /\ prune.pc = "range"
    /\ \A key \in prune.todo : ~Stale(prune.clone[key], prune.threshold)
    /\ snapshot' = Stored(prune.clone)
    /\ muHolder' = "none"
    /\ prune' = [prune EXCEPT !.pc = "select", !.clone = <<>>, !.todo = {}]
    /\ UNCHANGED <<now, started, cancelled, consume, ticker, browse,
                   subscribers, chans, stop, nObserved, lastEvent, panicked,
                   stopAt, loops, medVars,
                   libVars>>

\* pruneLoop returns: ctx is done
PruneExit ==
    /\ prune.pc = "select"
    /\ cancelled
    /\ browse = "returned"
    /\ prune' = [prune EXCEPT !.pc = "exited"]
    /\ UNCHANGED <<now, started, cancelled, snapshot, muHolder, consume,
                   ticker, browse, subscribers, chans, stop, nObserved,
                   lastEvent, panicked, stopAt, loops, medVars,
                   libVars>>

\* Subscribe: make a channel (buffer defaults to 1) and register it
Subscribe(c, buffer) ==
    /\ ~chans[c].made
    /\ c \in Readers \/ ~started
    /\ chans' = [chans EXCEPT ![c] = [made |-> TRUE, cap |-> SubscribeBuffer(buffer),
                                      buf |-> <<>>, closed |-> FALSE]]
    /\ subscribers' = subscribers \cup {c}
    /\ UNCHANGED <<now, started, cancelled, snapshot, muHolder, consume,
                   prune, ticker, browse, stop, nObserved, lastEvent,
                   panicked, stopAt, loops, medVars,
                   libVars>>

\* an Unsubscribe that closes the channel whether it is registered or not
UnsubscribeUnchecked(c) ==
    /\ chans[c].made
    /\ subscribers' = subscribers \ {c}
    /\ chans' = [chans EXCEPT ![c].closed = TRUE]
    /\ panicked' = (panicked \/ chans[c].closed)
    /\ UNCHANGED <<now, started, cancelled, snapshot, muHolder, consume,
                   prune, ticker, browse, stop, nObserved, lastEvent, stopAt,
                   loops, medVars,
                   libVars>>

\* Unsubscribe: a registered channel is removed and closed; any other
\* channel is left alone
Unsubscribe(c) ==
    /\ chans[c].made
    /\ IF c \in subscribers
       THEN /\ subscribers' = subscribers \ {c}
            /\ chans' = [chans EXCEPT ![c].closed = TRUE]
            /\ panicked' = (panicked \/ chans[c].closed)
       ELSE UNCHANGED <<subscribers, chans, panicked>>
    /\ UNCHANGED <<now, started, cancelled, snapshot, muHolder, consume,
                   prune, ticker, browse, stop, nObserved, lastEvent, stopAt,
                   loops, medVars,
                   libVars>>

\* a write through pointers: the struct with identity in ids gets another
\* Kind, the Text map with identity in ids other contents
Written(r, ids) ==
    [r EXCEPT !.Kind = IF r.rid \in ids THEN <<"!">> ELSE @,
              !.Text = IF r.tid \in ids THEN MutatedText ELSE @]

WrittenMap(m, ids) == [k \in DOMAIN m |-> Written(m[k], ids)]

WrittenBuf(buf, ids) ==
    [n \in DOMAIN buf |-> [buf[n] EXCEPT !.Server = Written(@, ids)]]

\* the effect of such a write on what the registry's goroutines hold
WriteThrough(ids) ==
    /\ snapshot' = WrittenMap(snapshot, ids)
    /\ consume' = [consume EXCEPT !.srv = {Written(r, ids) : r \in @},
                                  !.updated = WrittenMap(@, ids)]
    /\ prune' = [prune EXCEPT !.clone = WrittenMap(@, ids)]

\* the reader of a channel dequeues its oldest event; it may overwrite the
\* record and the Text map the event carries
Receive(c, mutate) ==
    /\ chans[c].made
    /\ chans[c].buf # <<>>
    /\ LET ids == IF mutate THEN Ids({Head(chans[c].buf).Server}) ELSE {}
       IN  /\ WriteThrough(ids)
           /\ chans' = [d \in Channels |->
                           [chans[d] EXCEPT !.buf =
                               WrittenBuf(IF d = c THEN Tail(@) ELSE @, ids)]]
    /\ UNCHANGED <<now, started, cancelled, muHolder, ticker, browse,
                   subscribers, stop, nObserved, lastEvent, panicked, stopAt,
                   loops, medVars,
                   libVars>>

\* a caller calls ServersSnapshot and overwrites every record and Text map
\* of the map it got
MutateSnapshot ==
    /\ DOMAIN snapshot # {}
    /\ LET ids == Ids(Records(ServersSnapshot))
       IN  /\ WriteThrough(ids)
           /\ chans' = [d \in Channels |->
                           [chans[d] EXCEPT !.buf = WrittenBuf(@, ids)]]
    /\ UNCHANGED <<now, started, cancelled, muHolder, ticker, browse,
                   subscribers, stop, nObserved, lastEvent, panicked, stopAt,
                   loops, medVars,
                   libVars>>

\* Stop, first half: d.cancel() when it is set, then wg.Wait() begins
StopCancel ==
    /\ stop = "idle"
    /\ started
    /\ cancelled' = TRUE
    /\ stop' = "waiting"
    /\ UNCHANGED <<now, started, snapshot, muHolder, consume, prune, ticker,
                   browse, subscribers, chans, nObserved, lastEvent,
                   panicked, stopAt, loops, medVars,
                   libVars>>

\* a Stop that does not wait
WaitGroupSkipped == TRUE

\* wg.Wait() is over when the three goroutines have returned
WaitGroupDone ==
    /\ consume.pc = "exited"
    /\ prune.pc = "exited"
    /\ browse = "returned"

\* Stop, second half: under subMu every registered channel is closed and
\* removed
StopClose ==
    /\ stop = "waiting"
    /\ WaitGroupDone
    /\ chans' = [c \in Channels |->
                    IF c \in subscribers THEN [chans[c] EXCEPT !.closed = TRUE]
                    ELSE chans[c]]
    /\ panicked' = (panicked \/ \E c \in subscribers : chans[c].closed)
    /\ subscribers' = {}
    /\ stop' = "done"
    /\ stopAt' = nEmitted
    /\ UNCHANGED <<now, started, cancelled, snapshot, muHolder, consume,
                   prune, ticker, browse, nObserved, lastEvent, loops,
                   medVars,
                   libVars>>

\* --------------------------------------------------------- specifications
\* the steps of the registry: its goroutines, its clock, Start and Stop
Registry ==
    \/ Tick
    \/ Start
    \/ BrowseReturn
    \/ \E entry \in Entries : ObserveStart(entry)
    \/ ConsumeNilEntry
    \/ ObserveModify
    \/ ObserveStore
    \/ ConsumeExit
    \/ TickerFire
    \/ PruneStart
    \/ PruneModify
    \/ \E key \in Instances : PruneRemove(key)
    \/ PruneStore
    \/ PruneExit
    \/ StopCancel
    \/ StopClose

Next ==
    \/ Registry
    \/ \E c \in Channels : Subscribe(c, BufferArg[c])
    \/ \E c \in Readers : Unsubscribe(c)
    \/ \E c \in Readers, mutate \in BOOLEAN : Receive(c, mutate)
    \/ MutateSnapshot

Spec == Init /\ [][Next]_vars

\* the registry with callers that call Start again
SpecRestart == Init /\ [][Next \/ StartAgain]_vars

\* the registry beside a subscriber that never reads
NextSlow ==
    \/ Registry
    \/ \E c \in Channels \ Readers : Subscribe(c, BufferArg[c])

\* the goroutines of the registry and the clock keep running: the Go
\* scheduler runs every runnable goroutine, the runtime fires a due ticker,
\* and time passes
SpecFair ==
    /\ Init /\ [][NextSlow]_vars
    /\ WF_vars(Tick)
    /\ WF_vars(TickerFire)
    /\ WF_vars(ObserveModify)
    /\ WF_vars(ObserveStore)
    /\ WF_vars(ConsumeExit)
    /\ WF_vars(PruneStart)
    /\ WF_vars(PruneModify)
    /\ WF_vars(\E key \in Instances : PruneRemove(key))
    /\ WF_vars(PruneStore)

\* ------------------------------------------------ mediator: pure functions
\* the bytes of the strings compared below, in increasing order
Bytes == <<" ", "-", ".", "/", "0", "1", "2", "3", "4", "5", "6", "7", "8",
           "9", ":", "=", "A", "R", "T", "_", "a", "b", "c", "e", "g", "h",
           "l", "n", "o", "p", "r", "s", "t", "u", "w", "x", "y">>

Code(c) == CHOOSE n \in DOMAIN Bytes : Bytes[n] = c

\* s < t on Go strings: bytewise lexicographic order
RECURSIVE Less(_, _)
Less(s, t) ==
    IF t = <<>> THEN FALSE
    ELSE IF s = <<>> THEN TRUE
    ELSE IF Head(s) = Head(t) THEN Less(Tail(s), Tail(t))
    ELSE Code(Head(s)) < Code(Head(t))

\* %d of fmt.Sprintf for i >= 0
RECURSIVE Itoa(_)
Itoa(i) ==
    LET digit == <<Bytes[5 + (i % 10)]>>
    IN  IF i < 10 THEN digit ELSE Itoa(i \div 10) \o digit

\* a replacer that turns the dash into a space
ReplaceDash(c) ==
    IF c = "-" THEN " " ELSE IF c \in {" ", ".", "/", ":"} THEN "_" ELSE c

\* the replacer of slugify on one byte
Replace(c) == IF c \in {" ", "-", ".", "/", ":"} THEN "_" ELSE c

\* the replacer of sanitizeToolName on one byte
ReplaceAgent(c) == IF c \in {" ", "-", "."} THEN "_" ELSE c

\* sanitizeToolName of the agent wrapper
sanitizeToolName(instance) ==
    LET s == ToLower(TrimSpace(instance))
    IN  IF s = <<>>
        THEN <<"a", "g", "e", "n", "t", "_", "w", "r", "a", "p", "p", "e", "r">>
        ELSE <<"a", "g", "e", "n", "t", "_">> \o [n \in DOMAIN s |-> ReplaceAgent(s[n])]

slugify(input) ==
    LET s == ToLower(TrimSpace(input))
    IN  IF s = <<>> THEN <<"t", "o", "o", "l">>
        ELSE [n \in DOMAIN s |-> Replace(s[n])]

\* fmt.Sprintf("%s__%s", slugify(instance), slugify(toolName))
BaseName(instance, toolName) ==
    slugify(instance) \o <<"_", "_">> \o slugify(toolName)

\* a loop that always appends the counter
ProbeSuffixed(base, name, i, existing) == base \o <<"_", "_">> \o Itoa(i)

\* a loop that counts in steps of two
RECURSIVE ProbeSkipping(_, _, _, _)
ProbeSkipping(base, name, i, existing) ==
    IF name \notin DOMAIN existing THEN name
    ELSE ProbeSkipping(base, base \o <<"_", "_">> \o Itoa(i + 1), i + 2,
                       existing)

\* the loop of buildFunctionName from the candidate name with counter i
RECURSIVE Probe(_, _, _, _)
Probe(base, name, i, existing) ==
    IF name \notin DOMAIN existing THEN name
    ELSE Probe(base, base \o <<"_", "_">> \o Itoa(i), i + 1, existing)

\* a buildFunctionName that never looks at the existing names
buildFunctionNameBase(instance, toolName, existing) ==
    BaseName(instance, toolName)

buildFunctionName(instance, toolName, existing) ==
    Probe(BaseName(instance, toolName), BaseName(instance, toolName), 2,
          existing)

\* the kindSet loop of New: entries lower-cased and trimmed, empty ones
\* dropped (the nil map of an empty set is the empty set)
kindSet(kinds) == {ToLower(TrimSpace(kinds[n])) : n \in DOMAIN kinds} \ {<<>>}

\* an isToolHost that takes every peer for a tool host
isToolHostAny(info) == TRUE

isToolHost(info) ==
    LET kind == ToLower(TrimSpace(info.Kind))
    IN  \/ kind = ToLower(ServerKindTool)
        \/ kind = ToLower(ServerKindAgentWrapper)

\* the allowed-kinds test of collectTools
kindAllowed(srv) ==
    allowedKinds # {} => ToLower(TrimSpace(srv.Kind)) \in allowedKinds

\* toolClient.ListTools(ctxList, srv): the peer's answer, or an error
\* (unreachable peer, non-200 status, undecodable body, 10 s timeout)
ListTools(srv) == catalogue[srv.Instance]

\* the locals of collectTools before its loop; called collects the peers
\* ListTools is called on
CollectStart == [toolParams |-> <<>>, descriptors |-> <<>>, meta |-> <<>>,
                 lastErr |-> {}, called |-> {}]

\* the loop over the tools of one peer (descriptions and parameters are
\* carried along by the code and left out here)
RECURSIVE addTools(_, _, _)
addTools(acc, srv, tools) ==
    IF tools = <<>> THEN acc
    ELSE LET tool == Head(tools)
             functionName == buildFunctionName(srv.Instance, tool, acc.meta)
             entry == [Server |-> srv, ToolName |-> tool]
         IN  addTools(
                 [toolParams |-> Append(acc.toolParams, [Name |-> functionName]),
                  meta |-> [n \in DOMAIN acc.meta \cup {functionName} |->
                               IF n = functionName THEN entry ELSE acc.meta[n]],
                  descriptors |->
                      Append(acc.descriptors,
                             [Name |-> functionName, Original |-> tool,
                              Server |-> [Instance |-> srv.Instance,
                                          Kind |-> srv.Kind]]),
                  lastErr |-> acc.lastErr,
                  called |-> acc.called],
                 srv, Tail(tools))

\* one iteration of the loop over the servers
visit(acc, srv) ==
    IF ~kindAllowed(srv) THEN acc
    ELSE IF ~isToolHost(srv) THEN acc
    ELSE LET res == ListTools(srv)
             called == [acc EXCEPT !.called = @ \cup {srv.Instance}]
         IN  IF res.err THEN [called EXCEPT !.lastErr = {srv.Instance}]
             ELSE addTools(called, srv, res.tools)

\* for _, srv := range servers, in the order the map iteration takes
RECURSIVE rangeServers(_, _, _)
rangeServers(acc, servers, order) ==
    IF order = <<>> THEN acc
    ELSE rangeServers(visit(acc, servers[Head(order)]), servers, Tail(order))

\* the orders in which a range over a map with these keys may visit them
Orders(keys) ==
    {o \in [1..Cardinality(keys) -> keys] : \A k \in keys : \E n \in DOMAIN o : o[n] = k}

\* sort.Slice by name
RECURSIVE Insert(_, _)
Insert(sorted, e) ==
    IF sorted = <<>> THEN <<e>>
    ELSE IF Less(e.Name, Head(sorted).Name) THEN <<e>> \o sorted
    ELSE <<Head(sorted)>> \o Insert(Tail(sorted), e)

RECURSIVE SortSlice(_)
SortSlice(s) ==
    IF s = <<>> THEN s
    ELSE Insert(SortSlice(SubSeq(s, 1, Len(s) - 1)), s[Len(s)])

\* collectTools when the range over the servers takes the given order
\* (toolClient is never nil: New supplies a client). A nil slice is <<>>,
\* so the two returns after the sort are one.
collectTools(order) ==
    LET servers == ServersSnapshot
        acc == rangeServers(CollectStart, servers, order)
    IN  IF DOMAIN servers = {}
        THEN [toolParams |-> <<>>, meta |-> <<>>, descriptors |-> <<>>,
              err |-> {}, called |-> {}]
        ELSE [toolParams |-> SortSlice(acc.toolParams),
              meta |-> acc.meta,
              descriptors |-> SortSlice(acc.descriptors),
              err |-> acc.lastErr,
              called |-> acc.called]

\* a Go error: the sentinel errors.Is finds in its chain ("none" when there
\* is none), and its message as the format, the argument and the wrapped
\* cause of the fmt.Errorf (or errors.New) that made it
Error(is, format, arg, cause) ==
    [is |-> is, format |-> format, arg |-> arg, cause |-> cause]

NoError == Error("nil", "", <<>>, "")

ErrModelUnsupported ==
    Error("ErrModelUnsupported", "model not supported", <<>>, "")

ErrStreamingUnsupported ==
    Error("ErrStreamingUnsupported", "streaming is not supported", <<>>, "")

\* ChatCompletionRequest.Validate (the message index is counted from 0)
Validate(r) ==
    LET noRole == {i \in DOMAIN r.Messages : r.Messages[i].Role = ""}
    IN  IF r.Model = "" THEN Error("none", "model is required", <<>>, "")
        ELSE IF Len(r.Messages) = 0
        THEN Error("none", "at least one message is required", <<>>, "")
        ELSE IF noRole # {}
        THEN Error("none", "message %d missing role",
                   Itoa((CHOOSE i \in noRole : \A j \in noRole : i <= j) - 1), "")
        ELSE NoError

\* TRUE when Validate returns an error
ValidateFails(r) == Validate(r) # NoError

supportsModel(model) == model = ModelName

ErrClientNotConfigured ==
    Error("none", "openai client not configured", <<>>, "")

\* an admission that looks at the stream flag first
admitStreamFirst(req) ==
    IF req.Stream THEN ErrStreamingUnsupported
    ELSE IF Validate(req) # NoError THEN Validate(req)
    ELSE IF req.Model # "" /\ ~supportsModel(req.Model)
    THEN Error("ErrModelUnsupported", "%w: %s", <<req.Model>>,
               ErrModelUnsupported.format)
    ELSE IF openaiClient = "nil" THEN ErrClientNotConfigured
    ELSE NoError

\* the error HandleChat returns before it collects the tools, if any
admit(req) ==
    IF Validate(req) # NoError THEN Validate(req)
    ELSE IF req.Stream THEN ErrStreamingUnsupported
    ELSE IF req.Model # "" /\ ~supportsModel(req.Model)
    THEN Error("ErrModelUnsupported", "%w: %s", <<req.Model>>,
               ErrModelUnsupported.format)
    ELSE IF openaiClient = "nil" THEN ErrClientNotConfigured
    ELSE NoError

\* a switch that answers every error alike
statusOfAny(err) == 500

\* the switch of handleChatCompletions on the error of HandleChat
statusOf(err) ==
    CASE err.is = "ErrModelUnsupported" -> 404
      [] err.is = "ErrStreamingUnsupported" -> 400
      [] OTHER -> 500

\* http.StatusText
StatusText(code) ==
    CASE code = 200 -> "OK"
      [] code = 400 -> "Bad Request"
      [] code = 404 -> "Not Found"
      [] code = 500 -> "Internal Server Error"

\* writeJSON and writeError of package api: the request is answered
writeJSON(route, req, payload, status) ==
    [pc |-> "done", route |-> route, req |-> req, status |-> status,
     body |-> payload]

writeError(route, req, status, err) ==
    writeJSON(route, req,
              [error |-> [message |-> [format |-> err.format, arg |-> err.arg,
                                       cause |-> err.cause],
                          type |-> StatusText(status)]],
              status)

\* convertMessages: the roles the upstream knows, any other becomes user
convertRole(role) ==
    IF role \in {"system", "assistant", "user"} THEN role ELSE "user"

Message(role, content, id, payload) ==
    [role |-> role, content |-> content, tool_calls |-> <<>>,
     tool_call_id |-> id, payload |-> payload]

\* a conversion that drops the messages of other roles
convertMessagesKnown(msgs) ==
    LET known == SelectSeq(msgs, LAMBDA msg : convertRole(msg.Role) = msg.Role)
    IN  [i \in DOMAIN known |->
            Message(known[i].Role, <<"request", i>>, <<>>, {})]

convertMessages(msgs) ==
    [i \in DOMAIN msgs |->
        Message(convertRole(msgs[i].Role), <<"request", i>>, <<>>, {})]

\* openai.SystemMessage("Warning: tool discovery error: ...")
WarningMessage == Message("system", <<"warning", 0>>, <<>>, {})

\* choice.Message.ToParam(): the content and the ids of the tool calls
AssistantMessage(reply) ==
    [Message("assistant", reply.content, <<>>, {}) EXCEPT
        !.tool_calls = [n \in DOMAIN reply.calls |-> reply.calls[n].id]]

\* openai.ToolMessage(payload, call.ID)
ToolMessage(call, metaEntry) ==
    Message("tool", <<"result", 0>>, call.id,
            {[tool |-> metaEntry.ToolName, server |-> metaEntry.Server.Instance]})

\* an upstream request that always carries the tools field
paramsWithTools(toolParams, conversation) ==
    [Messages |-> conversation, set |-> TRUE, Tools |-> toolParams]

\* the ChatCompletionNewParams of one loop iteration of HandleChat: Tools
\* is set only for a non-empty roster
params(toolParams, conversation) ==
    IF Len(toolParams) > 0
    THEN [Messages |-> conversation, set |-> TRUE, Tools |-> toolParams]
    ELSE [Messages |-> conversation, set |-> FALSE, Tools |-> <<>>]

\* a decoder that takes any text for an object
decodeArgsAny(arguments) ==
    [err |-> FALSE, args |-> IF arguments = "" THEN "nil" ELSE "map"]

\* json.Unmarshal of call.Function.Arguments into a map, skipped for the
\* empty string (the map stays nil)
decodeArgs(arguments) ==
    IF arguments = "" THEN [err |-> FALSE, args |-> "nil"]
    ELSE IF arguments = "{}" THEN [err |-> FALSE, args |-> "map"]
    ELSE [err |-> TRUE, args |-> "nil"]

\* a context that never reports its cancellation
ctxErrNil(c) == NoError

\* ctx.Err(), as the HTTP clients below Completions.New and CallTool read it
\* before they send a request
ctxErr(c) ==
    IF c.done THEN Error("none", "%v", <<>>, "context canceled") ELSE NoError

\* ------------------------------------------------------ mediator: inputs
RECURSIVE SeqsUpTo(_, _)
SeqsUpTo(S, n) ==
    IF n = 0 THEN {<<>>}
    ELSE LET shorter == SeqsUpTo(S, n - 1)
         IN  shorter \cup {Append(t, e) : t \in shorter, e \in S}

\* what a peer may answer to /tools/list: an error, or at most n tools
Catalogues(n) ==
    {[err |-> TRUE, tools |-> <<>>]}
        \cup {[err |-> FALSE, tools |-> t] : t \in SeqsUpTo(ToolNames, n)}

\* the first peer has the long catalogues, the others list one tool at most
PeerCatalogues ==
    [k \in Peers |-> IF k = PeerAb THEN Catalogues(MaxTools) ELSE Catalogues(1)]

\* the record observe stores for a peer advertising the TXT records text
Observed(k, text) ==
    [Instance |-> k, Kind |-> classifyKind(textMapOf(text)), LastSeen |-> 0,
     Text |-> textMapOf(text), rid |-> <<"s", Rank(k)>>, tid |-> <<"s", Rank(k)>>]

\* the decoded bodies of POST /v1/chat/completions; an absent JSON field is
\* the zero value
UserMessage == [Role |-> "user"]
NoRoleMessage == [Role |-> ""]
SystemMessage == [Role |-> "system"]
FunctionMessage == [Role |-> "function"]
ChatBodies ==
    {[json |-> FALSE]}
        \cup [json : {TRUE}, Model : {"", ModelName, OtherModel},
              Messages : {<<>>, <<UserMessage>>, <<UserMessage, NoRoleMessage>>,
                          <<SystemMessage, FunctionMessage>>},
              Stream : BOOLEAN]

\* ----------------------------------------------------- mediator: actions
\* the registry has been started and stands still while the request is
\* served (its history variables are not followed here)
RegistryStanding ==
    /\ now = 0
    /\ started = TRUE
    /\ cancelled = FALSE
    /\ muHolder = "none"
    /\ consume = [pc |-> "select", srv |-> {}, updated |-> <<>>]
    /\ prune = [pc |-> "select", threshold |-> 0, clone |-> <<>>, todo |-> {}]
    /\ ticker = [next |-> PruneInterval, pending |-> FALSE]
    /\ browse = "running"
    /\ subscribers = {}
    /\ chans = [c \in Channels |-> NewChan]
    /\ stop = "idle"
    /\ nObserved = 0
    /\ lastEvent = [k \in Instances |-> [Type |-> "none", seq |-> 0]]
    /\ panicked = FALSE
    /\ stopAt = -1
    /\ loops = 1

\* no request has been received
MediatorIdle ==
    /\ http = HttpIdle
    /\ turn = TurnIdle
    /\ upstream = <<>>
    /\ collected = {}
    /\ ctx = Background
    /\ dispatched = <<>>
    /\ peer = PeerIdle

\* the registry has observed the peers of one of the snapshots at time 0;
\* mediator.New has normalised Options.AllowedKinds; every peer has its
\* answer to /tools/list
InitMediator ==
    /\ RegistryStanding
    /\ \E keys \in PeerSets :
         /\ \E text \in [keys -> UNION {PeerText[k] : k \in keys}] :
              /\ \A k \in keys : text[k] \in PeerText[k]
              /\ snapshot = [k \in keys |-> Observed(k, text[k])]
         /\ catalogue \in [keys -> UNION {PeerCatalogues[k] : k \in keys}]
         /\ \A k \in keys : catalogue[k] \in PeerCatalogues[k]
    /\ \E kinds \in AllowedKindsOptions : allowedKinds = kindSet(kinds)
    /\ openaiClient = "configured"
    /\ MediatorIdle
    /\ LibIdle

\* GET /v1/models
handleModels ==
    /\ http.pc = "idle"
    /\ http' = writeJSON("GET /v1/models", <<>>,
                         [object |-> "list", data |-> <<ModelName>>], 200)
    /\ UNCHANGED <<regVars, libVars, allowedKinds, openaiClient, catalogue, turn, upstream, collected,
                   ctx, dispatched, peer>>

\* the error collectTools returns: the last failure of a ListTools call
ListToolsError == Error("none", "%v", <<>>, "list tools failed")

\* GET /v1/tools: Mediator.ListTools returns the descriptors and the error
\* of collectTools; any error is answered with 500
handleTools(order) ==
    /\ http.pc = "idle"
    /\ LET res == collectTools(order)
       IN  /\ collected' = {res}
           /\ http' = IF res.err # {}
                      THEN writeError("GET /v1/tools", <<>>, 500, ListToolsError)
                      ELSE writeJSON("GET /v1/tools", <<>>,
                                     [object |-> "list",
                                      data |-> res.descriptors], 200)
    /\ UNCHANGED <<regVars, libVars, allowedKinds, openaiClient, catalogue, turn, upstream, ctx,
                   dispatched, peer>>

\* what HandleChat works on: its locals, the requests it has sent to the
\* upstream and to the peers, and the answer of the api.Server
Machine ==
    [turn |-> turn, upstream |-> upstream, dispatched |-> dispatched,
     http |-> http]

\* HandleChat returns err and handleChatCompletions answers by its switch
fail(m, err) ==
    [m EXCEPT !.turn.pc = "done",
              !.http = writeError(m.http.route, m.http.req, statusOf(err), err)]

\* buildOpenAIResponse
buildOpenAIResponse(model, reply) ==
    [model |-> model,
     choices |-> <<[message |-> [role |-> "assistant",
                                 content |-> reply.content]]>>]

\* a return that sends the conversation upstream once more
succeedAgain(m, reply) ==
    [m EXCEPT !.turn.pc = "done",
              !.upstream = Append(@, params(m.turn.toolParams,
                                            m.turn.conversation)),
              !.http = writeJSON(m.http.route, m.http.req,
                                 buildOpenAIResponse(ModelName, reply), 200)]

\* HandleChat returns the response built from resp
succeed(m, reply) ==
    [m EXCEPT !.turn.pc = "done",
              !.http = writeJSON(m.http.route, m.http.req,
                                 buildOpenAIResponse(ModelName, reply), 200)]

\* a loop that collects the tools again at every iteration
callUpstreamFresh(m, c) ==
    LET fresh == collectTools(CHOOSE o \in Orders(DOMAIN snapshot) : TRUE)
    IN  IF ctxErr(c) # NoError THEN fail(m, ctxErr(c))
        ELSE [m EXCEPT !.turn.pc = "upstream",
                       !.turn.rounds = @ + 1,
                       !.turn.toolParams = fresh.toolParams,
                       !.turn.meta = fresh.meta,
                       !.upstream = Append(@, params(fresh.toolParams,
                                                     m.turn.conversation))]

\* the top of the loop: Completions.New sends the conversation, or returns
\* the error of a context that is done without sending
callUpstream(m, c) ==
    IF ctxErr(c) # NoError THEN fail(m, ctxErr(c))
    ELSE [m EXCEPT !.turn.pc = "upstream",
                   !.turn.rounds = @ + 1,
                   !.upstream = Append(@, params(m.turn.toolParams,
                                                 m.turn.conversation))]

\* a loop that takes the calls from the end
nextCallLast(pending) == pending[Len(pending)]

\* range choice.Message.ToolCalls: the call the loop is at
nextCall(pending) == Head(pending)

\* the body of the loop over choice.Message.ToolCalls for the next call
\* that is left, up to the request of CallTool; after the last call the
\* loop of HandleChat starts over
dispatch(m, c) ==
    IF m.turn.pending = <<>> THEN callUpstream(m, c)
    ELSE LET call == nextCall(m.turn.pending)
             decoded == decodeArgs(call.args)
         IN  IF call.name \notin DOMAIN m.turn.meta
             THEN fail(m, Error("none", "unknown tool '%s'", call.name, ""))
             ELSE IF decoded.err
             THEN fail(m, Error("none", "invalid tool arguments for %s: %w",
                                call.name, "invalid json"))
             ELSE IF ctxErr(c) # NoError
             THEN fail(m, Error("none", "tool %s failed: %w", call.name,
                                ctxErr(c).cause))
             ELSE [m EXCEPT
                     !.turn.pc = "peer",
                     !.dispatched =
                         Append(@, [id |-> call.id,
                                    server |-> m.turn.meta[call.name].Server.Instance,
                                    tool |-> m.turn.meta[call.name].ToolName,
                                    args |-> decoded.args])]

\* POST /v1/chat/completions up to the first upstream call: the body is
\* decoded, HandleChat validates and admits the request, collects the tools,
\* converts the messages, appends the warning when collectTools returned an
\* error, and enters the loop
handleChatCompletions(body, order) ==
    /\ http.pc = "idle"
    /\ LET route == "POST /v1/chat/completions"
           res == collectTools(order)
           messages == IF res.err # {}
                       THEN Append(convertMessages(body.Messages), WarningMessage)
                       ELSE convertMessages(body.Messages)
           m == [turn |-> [pc |-> "off", toolParams |-> res.toolParams,
                           meta |-> res.meta, warned |-> res.err # {},
                           rounds |-> 0, conversation |-> messages,
                           pending |-> <<>>],
                 upstream |-> upstream,
                 dispatched |-> dispatched,
                 http |-> [pc |-> "serving", route |-> route, req |-> body,
                           status |-> 0, body |-> <<>>]]
           next == callUpstream(m, ctx)
       IN  IF ~body.json
           THEN /\ http' = writeError(route, body, 400,
                                      Error("none", "%v", <<>>, "invalid json"))
                /\ UNCHANGED <<turn, upstream, collected>>
           ELSE IF admit(body) # NoError
           THEN /\ http' = writeError(route, body, statusOf(admit(body)),
                                      admit(body))
                /\ UNCHANGED <<turn, upstream, collected>>
           ELSE /\ http' = next.http
                /\ turn' = next.turn
                /\ upstream' = next.upstream
                /\ collected' = {res}
    /\ UNCHANGED <<regVars, libVars, allowedKinds, openaiClient, catalogue, ctx, dispatched, peer>>

\* a function name the roster has not
UnknownTool == <<"n", "o">>

\* the Function.Arguments strings of a tool call: absent, an object, and
\* text that is no JSON
ArgStrings == {"", "{}", "{"}

\* the tool calls of the reply to the current upstream request, identified
\* by the round and the position; a turn has at most MaxCalls tool calls
\* (an unknown function is refused before its arguments are looked at, so
\* one form of arguments is enough for it)
ToolCalls ==
    {[n \in DOMAIN l |-> [id |-> <<turn.rounds, n>>, name |-> l[n][1],
                          args |-> l[n][2]]] :
        l \in SeqsUpTo(((DOMAIN turn.meta) \X ArgStrings)
                          \cup {<<UnknownTool, "{}">>},
                       MaxCalls - Len(dispatched))}

\* what Completions.New may return
Completions ==
    {[kind |-> "error"], [kind |-> "empty"]}
        \cup {[kind |-> "message", content |-> <<"reply", turn.rounds>>,
               calls |-> calls] : calls \in ToolCalls}

\* Completions.New returns: the loop of HandleChat from there to the next
\* request it sends or to the answer
Completion(resp) ==
    /\ http.pc = "serving"
    /\ turn.pc = "upstream"
    /\ LET received == [Machine EXCEPT
                          !.turn.conversation = Append(@, AssistantMessage(resp)),
                          !.turn.pending = resp.calls]
           next == IF resp.kind = "error"
                   THEN fail(Machine, Error("none", "%v", <<>>, "upstream error"))
                   ELSE IF resp.kind = "empty"
                   THEN fail(Machine, Error("none", "empty completion response",
                                            <<>>, ""))
                   ELSE IF Len(resp.calls) = 0
                   THEN succeed(received, resp)
                   ELSE dispatch(received, ctx)
       IN  /\ turn' = next.turn
           /\ upstream' = next.upstream
           /\ dispatched' = next.dispatched
           /\ http' = next.http
    /\ UNCHANGED <<regVars, libVars, allowedKinds, openaiClient, catalogue, collected, ctx, peer>>

\* a loop that sends a failed call to the peer again
CallToolRetries(ok) ==
    /\ http.pc = "serving"
    /\ turn.pc = "peer"
    /\ LET call == nextCall(turn.pending)
           appended == [Machine EXCEPT
                          !.turn.conversation =
                              Append(@, ToolMessage(call, turn.meta[call.name])),
                          !.turn.pending = Tail(@)]
           next == IF ok THEN dispatch(appended, ctx)
                   ELSE [Machine EXCEPT
                           !.dispatched = Append(@, dispatched[Len(dispatched)])]
       IN  /\ next.turn.rounds <= MaxRounds
           /\ Len(next.dispatched) <= MaxCalls + 1
           /\ turn' = next.turn
           /\ upstream' = next.upstream
           /\ dispatched' = next.dispatched
           /\ http' = next.http
    /\ UNCHANGED <<regVars, libVars, allowedKinds, openaiClient, catalogue, collected, ctx, peer>>

\* CallTool returns: the result is appended as a tool message and the loop
\* goes on with the next call or the next upstream request; an error ends
\* HandleChat. The number of upstream requests of a behaviour is capped.
CallToolReturns(ok) ==
    /\ http.pc = "serving"
    /\ turn.pc = "peer"
    /\ LET call == nextCall(turn.pending)
           appended == [Machine EXCEPT
                          !.turn.conversation =
                              Append(@, ToolMessage(call, turn.meta[call.name])),
                          !.turn.pending = Tail(@)]
           next == IF ok THEN dispatch(appended, ctx)
                   ELSE fail(Machine, Error("none", "tool %s failed: %w",
                                            call.name, "call tool failed"))
       IN  /\ next.turn.rounds <= MaxRounds
           /\ turn' = next.turn
           /\ upstream' = next.upstream
           /\ dispatched' = next.dispatched
           /\ http' = next.http
    /\ UNCHANGED <<regVars, libVars, allowedKinds, openaiClient, catalogue, collected, ctx, peer>>

\* the client goes away while its request is served: r.Context() is done
Cancel ==
    /\ http.pc = "serving"
    /\ ~ctx.done
    /\ ctx' = [ctx EXCEPT !.done = TRUE]
    /\ UNCHANGED <<regVars, libVars, allowedKinds, openaiClient, catalogue, http, turn, upstream,
                   collected, dispatched, peer>>

NextMediator ==
    \/ handleModels
    \/ \E order \in Orders(DOMAIN snapshot) : handleTools(order)
    \/ \E body \in ChatBodies, order \in Orders(DOMAIN snapshot) :
          handleChatCompletions(body, order)

\* the api.Server and the mediator answering one request, up to the first
\* upstream request of a chat completion
SpecMediator == InitMediator /\ [][NextMediator]_vars

\* the snapshots a turn is followed from: no peer, a peer with one tool,
\* the same beside a peer whose listing fails, and that peer alone
TurnCatalogues ==
    {<<>>,
     PeerAb :> [err |-> FALSE, tools |-> <<ToolRun>>],
     (PeerAb :> [err |-> FALSE, tools |-> <<ToolRun>>])
        @@ (PeerC :> [err |-> TRUE, tools |-> <<>>]),
     PeerC :> [err |-> TRUE, tools |-> <<>>]}

InitTurn ==
    /\ RegistryStanding
    /\ catalogue \in TurnCatalogues
    /\ snapshot = [k \in DOMAIN catalogue |-> Observed(k, <<TxtRoleTool>>)]
    /\ allowedKinds = kindSet(<<ServerKindTool, ServerKindAgentWrapper>>)
    /\ openaiClient = "configured"
    /\ MediatorIdle
    /\ LibIdle

NextTurn ==
    \/ NextMediator
    \/ \E resp \in Completions : Completion(resp)
    \/ \E ok \in BOOLEAN : CallToolReturns(ok)
    \/ Cancel

\* the api.Server and the mediator serving one request to its answer
SpecTurn == InitTurn /\ [][NextTurn]_vars

\* ------------------------------------------------------------ admission
\* the values of Options.OpenAIClient after mediator.New
ClientOptions == {"configured", "nil"}

\* a mediator built with or without an upstream client, on a registry that
\* knows the peers of one of the catalogues
InitAdmit ==
    /\ RegistryStanding
    /\ catalogue \in TurnCatalogues
    /\ snapshot = [k \in DOMAIN catalogue |-> Observed(k, <<TxtRoleTool>>)]
    /\ allowedKinds = kindSet(<<ServerKindTool, ServerKindAgentWrapper>>)
    /\ openaiClient \in ClientOptions
    /\ MediatorIdle
    /\ LibIdle

NextAdmit ==
    \E body \in ChatBodies, order \in Orders(DOMAIN snapshot) :
        handleChatCompletions(body, order)

\* one POST /v1/chat/completions up to its rejection or its first upstream
\* request
SpecAdmit == InitAdmit /\ [][NextAdmit]_vars

\* ------------------------------------ a turn while the registry changes
\* what the peers answer to /tools/list while the registry changes
ChurnCatalogue == [k \in Instances |-> [err |-> FALSE, tools |-> <<ToolRun>>]]

\* the registry runs and has observed x at time 0; no request has been
\* received
InitChurn ==
    /\ now = 0
    /\ started = TRUE
    /\ cancelled = FALSE
    /\ muHolder = "none"
    /\ consume = [pc |-> "select", srv |-> {}, updated |-> <<>>]
    /\ prune = [pc |-> "select", threshold |-> 0, clone |-> <<>>, todo |-> {}]
    /\ ticker = [next |-> PruneInterval, pending |-> FALSE]
    /\ browse = "running"
    /\ subscribers = {}
    /\ chans = [c \in Channels |-> NewChan]
    /\ stop = "idle"
    /\ nObserved = 1
    /\ lastEvent = [k \in Instances |->
                       IF k = <<"x">> THEN [Type |-> EventAdded, seq |-> 1]
                       ELSE [Type |-> "none", seq |-> 0]]
    /\ panicked = FALSE
    /\ stopAt = -1
    /\ loops = 1
    /\ snapshot = (<<"x">> :> Observed(<<"x">>, EntryText[<<"x">>]))
    /\ catalogue = ChurnCatalogue
    /\ allowedKinds = kindSet(<<ServerKindTool, ServerKindAgentWrapper>>)
    /\ openaiClient = "configured"
    /\ MediatorIdle
    /\ LibIdle

\* the two writers of the registry
Writers ==
    \/ Tick
    \/ \E entry \in Entries : ObserveStart(entry)
    \/ ObserveModify
    \/ ObserveStore
    \/ TickerFire
    \/ PruneStart
    \/ PruneModify
    \/ \E key \in Instances : PruneRemove(key)
    \/ PruneStore

\* the bodies of the requests served while the registry changes
ChurnBodies ==
    {b \in ChatBodies : b.json /\ b.Model = ModelName /\ ~b.Stream
                           /\ b.Messages = <<UserMessage>>}

\* the upstream's replies: a message with at most one call of a tool of the
\* roster
ChurnCompletions ==
    {[kind |-> "message", content |-> <<"reply", turn.rounds>>, calls |-> calls] :
        calls \in {<<>>}
            \cup {<<[id |-> <<turn.rounds, 1>>, name |-> name, args |-> "{}"]>> :
                     name \in IF Len(dispatched) < MaxCalls
                              THEN DOMAIN turn.meta ELSE {}}}

NextChurn ==
    \/ Writers
    \/ \E body \in ChurnBodies, order \in Orders(DOMAIN snapshot) :
          handleChatCompletions(body, order)
    \/ \E resp \in ChurnCompletions : Completion(resp)
    \/ CallToolReturns(TRUE)

\* the mediator serving one chat completion while the registry observes and
\* prunes
SpecChurn == InitChurn /\ [][NextChurn]_vars

\* ------------------------------------------------- functions of strings
\* the strings the functions are applied to: up to MaxLen bytes, with
\* letters of both cases, white space and the bytes the replacers know
Alphabet == {"A", "a", " ", "\t", "-", ".", "/", ":", "_"}

Strings == SeqsUpTo(Alphabet, MaxLen)

\* the Text maps of AnnounceOptions: one or two keys
TextKeys == {<<"k">>, <<" ", "k">>, <<"k", "=", "j">>, <<" ">>, <<"j">>}
TextValues == {<<>>, <<"v">>, <<"v", " ">>, <<"a", "=", "b">>}
TextMaps ==
    UNION {[keys -> TextValues] :
              keys \in {ks \in SUBSET TextKeys : Cardinality(ks) \in 1..2}}

\* the loop of NewAnnouncer over opts.Text, visiting the keys in order
RECURSIVE announceText(_, _)
announceText(text, order) ==
    IF order = <<>> THEN <<>>
    ELSE LET key == TrimSpace(Head(order))
             value == TrimSpace(text[Head(order)])
             rest == announceText(text, Tail(order))
         IN  IF key = <<>> THEN rest
             ELSE <<key \o <<"=">> \o value>> \o rest

\* the function is given one of its inputs
InitPure ==
    /\ InitRegistry
    /\ allowedKinds = {}
    /\ openaiClient = "configured"
    /\ catalogue = <<>>
    /\ MediatorIdle
    /\ announcer = AnnouncerIdle
    /\ \E input \in [kind : {"string"}, str : Strings, text : {<<>>}]
                      \cup [kind : {"text"}, str : {<<>>}, text : TextMaps] :
          pure = [fn |-> "none", input |-> input, outs |-> <<>>]

\* slugify, applied to the input and then to its own result
Slugify ==
    /\ pure.fn \in {"none", "slugify"}
    /\ pure.input.kind = "string"
    /\ Len(pure.outs) < 2
    /\ pure' = [pure EXCEPT
                  !.fn = "slugify",
                  !.outs = Append(@, slugify(IF @ = <<>> THEN pure.input.str
                                             ELSE @[Len(@)]))]
    /\ UNCHANGED <<regVars, medVars, announcer>>

\* newAgentToolServer names its tool after cfg.Instance
SanitizeToolName ==
    /\ pure.fn = "none"
    /\ pure.input.kind = "string"
    /\ pure' = [pure EXCEPT !.fn = "sanitizeToolName",
                            !.outs = <<sanitizeToolName(pure.input.str)>>]
    /\ UNCHANGED <<regVars, medVars, announcer>>

\* NewAnnouncer builds the TXT records it registers (range over a map: any
\* order of the keys)
NewAnnouncerText(order) ==
    /\ pure.fn = "none"
    /\ pure.input.kind = "text"
    /\ pure' = [pure EXCEPT !.fn = "announce",
                            !.outs = <<announceText(pure.input.text, order)>>]
    /\ UNCHANGED <<regVars, medVars, announcer>>

\* observe parses the TXT records of the entry into the Text map
ObserveText ==
    /\ pure.fn = "announce"
    /\ Len(pure.outs) = 1
    /\ pure' = [pure EXCEPT !.outs = Append(@, textMapOf(pure.outs[1]))]
    /\ UNCHANGED <<regVars, medVars, announcer>>

NextPure ==
    \/ Slugify
    \/ SanitizeToolName
    \/ \E order \in Orders(DOMAIN pure.input.text) : NewAnnouncerText(order)
    \/ ObserveText

\* the string functions of the mediator, the agent wrapper, the announcer
\* and the registry, each applied to one input
SpecPure == InitPure /\ [][NextPure]_vars

\* ---------------------------------------------------------- the announcer
\* the goroutines that call Announcer.Stop
Stoppers == {"s1", "s2", "s3"}

\* an Announcer as NewAnnouncer returns it (server is the registration), or
\* the zero value (server is nil); nobody has called Stop
InitAnnouncer ==
    /\ InitRegistry
    /\ allowedKinds = {}
    /\ openaiClient = "configured"
    /\ catalogue = <<>>
    /\ MediatorIdle
    /\ pure = PureIdle
    /\ \E server \in {"registered", "nil"} :
          announcer = [server |-> server, done |-> FALSE, m |-> "none",
                       shutdowns |-> 0,
                       pc |-> [c \in Stoppers |-> "idle"],
                       calls |-> [c \in Stoppers |-> 0]]

\* a goroutine calls a.Stop(), which calls a.once.Do
AnnouncerStop(c) ==
    /\ announcer.pc[c] = "idle"
    /\ announcer.calls[c] < MaxStops
    /\ announcer' = [announcer EXCEPT !.pc[c] = "load", !.calls[c] = @ + 1]
    /\ UNCHANGED <<regVars, medVars, pure>>

\* once.Do reads done: Stop returns when it is set
OnceLoad(c) ==
    /\ announcer.pc[c] = "load"
    /\ announcer' = [announcer EXCEPT
                       !.pc[c] = IF announcer.done THEN "idle" ELSE "lock"]
    /\ UNCHANGED <<regVars, medVars, pure>>

\* a doSlow that does not read done again under the mutex
OnceLockBlind(c) ==
    /\ announcer.pc[c] = "lock"
    /\ announcer.m = "none"
    /\ announcer' = [announcer EXCEPT !.m = c, !.pc[c] = "f"]
    /\ UNCHANGED <<regVars, medVars, pure>>

\* once.doSlow takes the mutex and reads done again: it goes on to the
\* function, or unlocks and Stop returns
OnceLock(c) ==
    /\ announcer.pc[c] = "lock"
    /\ announcer.m = "none"
    /\ announcer' = IF announcer.done
                    THEN [announcer EXCEPT !.pc[c] = "idle"]
                    ELSE [announcer EXCEPT !.m = c, !.pc[c] = "f"]
    /\ UNCHANGED <<regVars, medVars, pure>>

\* the function given to once.Do: a.server.Shutdown() unless server is nil
OnceDo(c) ==
    /\ announcer.pc[c] = "f"
    /\ announcer' = [announcer EXCEPT
                       !.pc[c] = "store",
                       !.shutdowns = IF announcer.server = "nil" THEN @
                                     ELSE @ + 1]
    /\ UNCHANGED <<regVars, medVars, pure>>

\* once.doSlow sets done and unlocks; Stop returns
OnceStore(c) ==
    /\ announcer.pc[c] = "store"
    /\ announcer' = [announcer EXCEPT !.done = TRUE, !.m = "none",
                                      !.pc[c] = "idle"]
    /\ UNCHANGED <<regVars, medVars, pure>>

NextAnnouncer ==
    \E c \in Stoppers :
        \/ AnnouncerStop(c)
        \/ OnceLoad(c)
        \/ OnceLock(c)
        \/ OnceDo(c)
        \/ OnceStore(c)

\* an Announcer and the goroutines that stop it
SpecAnnouncer == InitAnnouncer /\ [][NextAnnouncer]_vars

\* ----------------------------------------------------- the peers' servers
\* newToolServer: one tool per HTTP method
HttpTools ==
    {[Name |-> "http_get", Method |-> "GET"],
     [Name |-> "http_post", Method |-> "POST"],
     [Name |-> "http_put", Method |-> "PUT"],
     [Name |-> "http_patch", Method |-> "PATCH"],
     [Name |-> "http_delete", Method |-> "DELETE"]}

\* toolServer.lookupTool: the definitions with that name (none: the error)
lookupTool(name) == {def \in HttpTools : def.Name = name}

\* the values of an arguments map: a number, and strings
NumberValue == [string |-> FALSE, text |-> <<>>]
StringValue(text) == [string |-> TRUE, text |-> text]

\* extractString: the error for a nil map, a missing key, a value that is
\* no string and a blank string
extractString(args, key) ==
    IF args.nil \/ key \notin DOMAIN args.map
    THEN [err |-> "missing %s", str |-> <<>>]
    ELSE IF ~args.map[key].string \/ TrimSpace(args.map[key].text) = <<>>
    THEN [err |-> "%s must be a non-empty string", str |-> <<>>]
    ELSE [err |-> "", str |-> args.map[key].text]

\* url.ParseRequestURI for the targets of the requests below: a path, or a
\* scheme followed by a colon
parseRequestURIFails(target) ==
    ~(Head(target) = "/" \/ \E i \in 2..Len(target) : target[i] = ":")

\* the answers of the peers' servers: writeJSON, and writeError with its
\* envelope {error: {message, code}}
peerJSON(server, req, payload, status) ==
    [pc |-> "done", server |-> server, req |-> req, status |-> status,
     body |-> payload]

peerError(server, req, status, message) ==
    peerJSON(server, req,
             [error |-> [message |-> message, code |-> status]], status)

\* toolServer.handleCallTool; done tells whether the HTTP request of the
\* tool could be carried out
toolServerHandleCallTool(req, done) ==
    /\ peer.pc = "idle"
    /\ LET server == "toolServer"
           target == extractString(req.arguments, "url")
       IN  peer' =
             IF ~req.json THEN peerError(server, req, 400, "invalid json")
             ELSE IF lookupTool(req.name) = {}
             THEN peerError(server, req, 404, "tool %q not found")
             ELSE IF target.err # ""
             THEN peerError(server, req, 400, target.err)
             ELSE IF parseRequestURIFails(target.str)
             THEN peerError(server, req, 400, "invalid url: %w")
             ELSE IF ~done
             THEN peerError(server, req, 400, "http %s request failed: %w")
             ELSE peerJSON(server, req,
                           [tool |-> req.name, result |-> target.str], 200)
    /\ UNCHANGED <<regVars, libVars, allowedKinds, openaiClient, catalogue, http, turn, upstream,
                   collected, ctx, dispatched>>

\* the name of the one tool of the agent wrapper started for instance x
AgentToolName == "agent_x"

\* agentToolServer.handleCallTool: the body is decoded into the prompt and
\* the messages, any other field is dropped; provider is what the backend
\* model returns
agentToolServerHandleCallTool(req, provider) ==
    /\ peer.pc = "idle"
    /\ LET server == "agentToolServer"
       IN  peer' =
             IF ~req.json THEN peerError(server, req, 400, "invalid json")
             ELSE IF TrimSpace(req.prompt) = <<>> /\ req.messages = 0
             THEN peerError(server, req, 400, "prompt or messages are required")
             ELSE IF provider = "error"
             THEN peerError(server, req, 500, "provider error")
             ELSE IF provider = "empty"
             THEN peerError(server, req, 500, "empty response from provider")
             ELSE peerJSON(server, req,
                           [tool |-> AgentToolName,
                            result |-> req.messages + 1], 200)
    /\ UNCHANGED <<regVars, libVars, allowedKinds, openaiClient, catalogue, http, turn, upstream,
                   collected, ctx, dispatched>>

\* the bodies of POST /tools/call: no JSON, or an object with a name and
\* arguments (for the agent wrapper: a prompt and messages beside the name)
ArgumentMaps ==
    {[nil |-> TRUE, map |-> <<>>], [nil |-> FALSE, map |-> <<>>]}
        \cup {[nil |-> FALSE, map |-> [k \in {"url"} |-> v]] :
                 v \in {NumberValue, StringValue(<<>>), StringValue(<<" ">>),
                        StringValue(<<"x">>), StringValue(<<"/", "x">>),
                        StringValue(<<"h", ":", "/", "/", "x">>)}}

ToolCallRequests ==
    {[json |-> FALSE]}
        \cup [json : {TRUE},
              name : {def.Name : def \in HttpTools} \cup {"http_head", "HTTP_GET", ""},
              arguments : ArgumentMaps]

AgentCallRequests ==
    {[json |-> FALSE]}
        \cup [json : {TRUE},
              name : {AgentToolName, "http_get", ""},
              prompt : {<<>>, <<" ">>, <<"h", "i">>},
              messages : 0..1]

NextPeers ==
    \/ \E req \in ToolCallRequests, done \in BOOLEAN :
          toolServerHandleCallTool(req, done)
    \/ \E req \in AgentCallRequests, provider \in {"error", "empty", "message"} :
          agentToolServerHandleCallTool(req, provider)

\* a peer's server answering one POST /tools/call
SpecPeers == Init /\ [][NextPeers]_vars

\* ------------------------------------------------------------ properties
\* the events a channel holds, oldest first
Buffered(c) == {chans[c].buf[n] : n \in 1..Len(chans[c].buf)}

\* the seqs of a buffer, oldest first
Seqs(buf) == [n \in DOMAIN buf |-> buf[n].seq]

\* an event is the last one broadcast for its instance
IsLast(e) == lastEvent[e.Server.Instance].seq = e.seq

\* C1: once an added or updated event for instance i is in a subscriber's
\* channel, and no later event for i has been broadcast, a call of
\* ServersSnapshot returns a map that has key i with a record at least as
\* fresh as the one the event carries.
C1_SnapshotHasEnqueued ==
    \A c \in Channels : \A e \in Buffered(c) :
        (e.Type \in {EventAdded, EventUpdated} /\ IsLast(e))
            => /\ e.Server.Instance \in DOMAIN ServersSnapshot
               /\ ServersSnapshot[e.Server.Instance].LastSeen >= e.Server.LastSeen

\* C2: once a removed event for instance i is in a subscriber's channel, and
\* no later event for i has been broadcast, a call of ServersSnapshot returns
\* a map without key i.
C2_SnapshotExcludesRemoved ==
    \A c \in Channels : \A e \in Buffered(c) :
        (e.Type = EventRemoved /\ IsLast(e))
            => e.Server.Instance \notin DOMAIN ServersSnapshot

\* C3: per instance the broadcast events follow (added updated* removed)*:
\* added comes first and after each removed, and only while the key is
\* absent from the map; updated and removed come only after added or
\* updated, and only while the key is present.
C3_EventOrder ==
    [][\A k \in Instances :
          lastEvent'[k] # lastEvent[k] =>
              LET was == lastEvent[k].Type
                  is == lastEvent'[k].Type
              IN  \/ /\ is = EventAdded
                     /\ was \in {"none", EventRemoved}
                     /\ k \notin DOMAIN snapshot
                  \/ /\ is \in {EventUpdated, EventRemoved}
                     /\ was \in {EventAdded, EventUpdated}
                     /\ k \in DOMAIN snapshot]_vars

\* x was added, removed and added again
C3_Witness == lastEvent[<<"x">>] = [Type |-> EventAdded, seq |-> 3]

\* the seqs of a buffer increase strictly from the oldest to the newest
Increasing(q) == \A m, n \in DOMAIN q : m < n => q[m] < q[n]

\* C4: per subscriber the events come out in the order of broadcast, none
\* twice: a channel's buffer only ever loses its oldest event (a dequeue) or
\* gains the event being broadcast at its end, and the events it holds are
\* in the order of broadcast.
C4_Fifo ==
    /\ [][\A c \in Channels :
             LET old == Seqs(chans[c].buf)
                 new == Seqs(chans'[c].buf)
             IN  \/ new = old
                 \/ old # <<>> /\ new = Tail(old)
                 \/ new = Append(old, nEmitted + 1) /\ nEmitted' = nEmitted + 1]_vars
    /\ [](\A c \in Channels :
             /\ Increasing(Seqs(chans[c].buf))
             /\ \A e \in Buffered(c) : e.seq \in 1..nEmitted)

\* the reader had events 1 and 2 buffered when 3 was broadcast (dropped),
\* dequeued 1, and was sent 4
C4_Witness == Seqs(chans["c2"].buf) = <<2, 4>>

\* a handler of the registry is at a step that broadcasts
AtBroadcast ==
    \/ consume.pc = "lock" /\ muHolder = "none"
    \/ prune.pc = "range"

\* C5: the fan-out never blocks the registry and loses events only for full
\* channels: a handler at a broadcasting step can take it whatever the
\* channels hold; at a broadcast every registered channel with room gets the
\* event at the end of its buffer and every full one stays as it is; and the
\* subscriber that never reads (buffer argument 0, so capacity 1) holds,
\* after N >= 1 events, at least 1 and at most N of them.
C5_LossyFanOut ==
    /\ [](AtBroadcast =>
             ENABLED (ObserveModify \/ PruneStore
                          \/ \E key \in Instances : PruneRemove(key)))
    /\ [][nEmitted' # nEmitted =>
             \A c \in Targets :
                 Seqs(chans'[c].buf) =
                     IF Len(chans[c].buf) < chans[c].cap
                     THEN Append(Seqs(chans[c].buf), nEmitted')
                     ELSE Seqs(chans[c].buf)]_vars
    /\ [](\A c \in Channels \ Readers :
             (chans[c].made /\ nEmitted >= 1)
                 => Len(chans[c].buf) >= 1 /\ Len(chans[c].buf) <= nEmitted)

\* the slow subscriber is full with event 1; event 2 was dropped for it and
\* delivered to the reader
C5_Witness ==
    /\ Seqs(chans["c1"].buf) = <<1>>
    /\ \E e \in Buffered("c2") : e.seq = 2

\* how long ago a record was last seen
Age(r) == now - r.LastSeen

\* a step in which a prune pass stores its map
PrunePassEnds == prune.pc = "range" /\ prune'.pc = "select"

\* C6 as stated: in every reachable state every entry of the snapshot has
\* last_seen >= now - TTL.
C6_AlwaysFresh ==
    \A k \in DOMAIN snapshot : snapshot[k].LastSeen >= now - EntryTTL

\* C6 amended: the map a prune pass stores holds only entries with
\* last_seen >= T - TTL, T being the time the pass read when it began, and
\* every such entry of the map the pass loaded is kept.
C6_FreshAfterPrune ==
    [][PrunePassEnds =>
          /\ \A k \in DOMAIN snapshot' :
                 snapshot'[k].LastSeen >= prune.threshold
          /\ prune.threshold = now - EntryTTL
          /\ \A k \in DOMAIN snapshot :
                 snapshot[k].LastSeen >= prune.threshold => k \in DOMAIN snapshot']_vars

\* a pass has just removed x and kept y
C6_Witness ==
    /\ prune.pc = "select"
    /\ lastEvent[<<"x">>].Type = EventRemoved
    /\ <<"x">> \notin DOMAIN snapshot
    /\ <<"y">> \in DOMAIN snapshot
    /\ now = snapshot[<<"y">>].LastSeen + EntryTTL

\* a prune pass is due or under way
PrunePassDue ==
    \/ prune.pc \in {"lock", "range"}
    \/ prune.pc = "select" /\ (ticker.pending \/ now >= ticker.next)

\* C7: while the registry runs, a snapshot entry is never older than the
\* TTL plus one prune interval, and one that old is in the snapshot only
\* while the prune pass of that tick is due or under way.
C7_BoundedStaleness ==
    (started /\ ~cancelled) =>
        \A k \in DOMAIN snapshot :
            /\ Age(snapshot[k]) <= EntryTTL + PruneInterval
            /\ Age(snapshot[k]) > EntryTTL => PrunePassDue

\* an entry as old as the TTL plus one prune interval, its pass under way
C7_Witness ==
    /\ started /\ ~cancelled
    /\ prune.pc = "range"
    /\ \E k \in DOMAIN snapshot : Age(snapshot[k]) = EntryTTL + PruneInterval

\* the ServerInfo values callers and subscribers hold: what ServersSnapshot
\* returns and what the channels carry
HandedOut == Records(ServersSnapshot) \cup UNION {BufferedRecords(c) : c \in Channels}

\* a record bears the marks of a caller's write
Overwritten(r) == r.Kind = <<"!">> \/ r.Text = MutatedText

\* C9: no struct and no Text map is shared between what the registry holds
\* (the stored map, the locals of observe and pruneStale) and what was
\* handed to callers and subscribers, so no write of theirs shows in the
\* registry, in a later ServersSnapshot or in an event broadcast later.
C9_NoLeak ==
    /\ [](Ids(RegistryRecords) \cap Ids(HandedOut) = {})
    /\ [](\A r \in RegistryRecords \cup Records(ServersSnapshot) : ~Overwritten(r))
    /\ [][nEmitted' # nEmitted =>
             \A c \in Channels : \A n \in DOMAIN chans'[c].buf :
                 chans'[c].buf[n].seq = nEmitted'
                     => ~Overwritten(chans'[c].buf[n].Server)]_vars

\* a subscriber overwrote the record of the event for x it dequeued (the
\* slow subscriber's copy of the event shows it) and the snapshot's x is
\* intact
C9_Witness ==
    /\ <<"x">> \in DOMAIN snapshot
    /\ \E e \in Buffered("c1") : e.Server.Instance = <<"x">> /\ Overwritten(e.Server)

\* C10: Stop cancels first, closes the registered channels and empties the
\* set only when the three goroutines have returned; nothing is sent on or
\* done to a closed channel, and no event is broadcast once Stop has
\* returned.
C10_StopOrdering ==
    /\ [](stop # "idle" => cancelled)
    /\ [][stop # "done" /\ stop' = "done" =>
             /\ consume.pc = "exited" /\ prune.pc = "exited" /\ browse = "returned"
             /\ subscribers' = {}
             /\ \A c \in subscribers : chans'[c].closed]_vars
    /\ [](~panicked)
    /\ [](\A c \in subscribers : ~chans[c].closed)
    /\ [](stop = "done" => nEmitted = stopAt)
    /\ [][\A c \in Channels :
             chans[c].closed =>
                 chans'[c].closed /\ Len(chans'[c].buf) <= Len(chans[c].buf)]_vars

\* Stop has returned after events were broadcast: both channels closed, the
\* slow subscriber's event still buffered
C10_Witness ==
    /\ stop = "done"
    /\ stopAt >= 2
    /\ chans["c1"].closed /\ chans["c1"].buf # <<>>
    /\ chans["c2"].closed

\* the record of k in the snapshot will be past the TTL, and a prune tick
\* later, before the clock of the model ends
GoesStale(k) ==
    /\ k \in DOMAIN snapshot
    /\ snapshot[k].LastSeen + EntryTTL + PruneInterval <= MaxTime

\* C8: a peer in the snapshot whose record goes stale is, unless it is
\* observed again or the registry is stopped, eventually pruned: its last
\* event is removed and the snapshot has not its key.
C8_StalePruned ==
    \A k \in Instances :
        GoesStale(k) ~>
            \/ k \notin DOMAIN snapshot /\ lastEvent[k].Type = EventRemoved
            \/ k \in DOMAIN snapshot /\ ~GoesStale(k)
            \/ cancelled

\* x was observed at the start, never again, and has been pruned while the
\* registry runs
C8_Witness ==
    /\ ~cancelled
    /\ nObserved = 1
    /\ <<"x">> \notin DOMAIN snapshot
    /\ lastEvent[<<"x">>].Type = EventRemoved
    /\ now = EntryTTL + PruneInterval

\* C11: a second Start on the same registry fails and launches nothing: the
\* three goroutines are launched at most once.
C11_StartOnce == loops <= 1

\* C12: once Stop has returned, every channel Subscribe has returned is
\* closed.
C12_ClosedAfterStop ==
    stop = "done" => \A c \in Channels : chans[c].made => chans[c].closed

\* ------------------------------------------------- properties: mediator
NamesOf(s) == [n \in DOMAIN s |-> s[n].Name]

Ascending(names) ==
    \A n \in 1..(Len(names) - 1) : Less(names[n], names[n + 1])

Distinct(names) ==
    \A i, j \in DOMAIN names : i # j => names[i] # names[j]

\* the roster entries (function name, peer, tool) of a collectTools result
Mapping(res) ==
    {<<n, res.meta[n].Server.Instance, res.meta[n].ToolName>> :
        n \in DOMAIN res.meta}

\* the function names a result gives to the tool t of peer k
NamesFor(res, k, t) == {e[1] : e \in {m \in Mapping(res) : m[2] = k /\ m[3] = t}}

Suffixed(base, n) == base \o <<"_", "_">> \o Itoa(n)

\* C13: in every roster collectTools builds, the function names are pairwise
\* distinct and the roster (tool params and descriptors alike) is in
\* ascending bytewise order of function name; the names are the keys of meta.
C13_RosterSorted ==
    \A res \in collected :
        /\ Distinct(NamesOf(res.toolParams))
        /\ Ascending(NamesOf(res.toolParams))
        /\ NamesOf(res.descriptors) = NamesOf(res.toolParams)
        /\ DOMAIN res.meta = {res.toolParams[n].Name : n \in DOMAIN res.toolParams}

\* one peer lists run__2, run, run: the names come out as a_b__run__2,
\* a_b__run, a_b__run__3 and the roster holds them sorted
C13_Witness ==
    /\ DOMAIN snapshot = {PeerAb}
    /\ catalogue[PeerAb].tools = <<ToolRun2, ToolRun, ToolRun>>
    /\ \E res \in collected :
         NamesOf(res.toolParams) =
             <<BaseName(PeerAb, ToolRun), BaseName(PeerAb, ToolRun2),
               Suffixed(BaseName(PeerAb, ToolRun), 3)>>

\* C14: for the snapshot and the catalogues of the state, the roster
\* collectTools returned has the same function names and the same mapping
\* from function name to (peer, tool) as the roster of any other order of
\* visiting the peers.
C14_OrderIndependent ==
    \A res \in collected : \A order \in Orders(DOMAIN snapshot) :
        Mapping(res) = Mapping(collectTools(order))

\* both peers were listed and answered with the one tool t
BothExpose(res, a, b, t) ==
    /\ a # b
    /\ res.called = {a, b}
    /\ catalogue[a] = [err |-> FALSE, tools |-> <<t>>]
    /\ catalogue[b] = [err |-> FALSE, tools |-> <<t>>]

\* C15 as stated: two peers with distinct instance names that each expose
\* the tool t get slug(a)__slug(t) and slug(b)__slug(t), with no suffix.
C15_NoSuffixAcrossPeers ==
    \A res \in collected : \A a, b \in Peers : \A t \in ToolNames :
        BothExpose(res, a, b, t) =>
            /\ NamesFor(res, a, t) = {BaseName(a, t)}
            /\ NamesFor(res, b, t) = {BaseName(b, t)}

\* C15 amended: the same, for instance names with distinct slugs.
C15_NoSuffixDistinctSlugs ==
    \A res \in collected : \A a, b \in Peers : \A t \in ToolNames :
        BothExpose(res, a, b, t) /\ slugify(a) # slugify(b) =>
            /\ NamesFor(res, a, t) = {BaseName(a, t)}
            /\ NamesFor(res, b, t) = {BaseName(b, t)}
            /\ DOMAIN res.meta = {BaseName(a, t), BaseName(b, t)}

C15_Witness ==
    \E res \in collected :
        /\ BothExpose(res, PeerAb, PeerC, ToolRun)
        /\ Mapping(res) = {<<BaseName(PeerAb, ToolRun), PeerAb, ToolRun>>,
                           <<BaseName(PeerC, ToolRun), PeerC, ToolRun>>}

\* how many times the catalogue of peer k lists the tool t
Times(k, t) ==
    Cardinality({n \in DOMAIN catalogue[k].tools : catalogue[k].tools[n] = t})

\* base, base__2, ..., base__k
Run(base, k) == {base} \cup {Suffixed(base, n) : n \in 2..k}

\* the tools the listed peers answered with, as (peer, tool) pairs
Exposed(res) ==
    UNION {{<<k, catalogue[k].tools[n]>> : n \in DOMAIN catalogue[k].tools} :
              k \in {c \in res.called : ~catalogue[c].err}}

\* one base name is the other, or the other with a counter appended
Clash(x, y) == x \in Run(y, 2 * MaxTools) \/ y \in Run(x, 2 * MaxTools)

\* C16 as stated: a peer whose catalogue lists the tool t k times (k >= 2)
\* has the names base, base__2, ..., base__k for it in the roster.
C16_SuffixIsOccurrence ==
    \A res \in collected : \A k \in res.called : \A t \in ToolNames :
        ~catalogue[k].err /\ Times(k, t) >= 2 =>
            NamesFor(res, k, t) = Run(BaseName(k, t), Times(k, t))

\* C16 amended: the same (for k >= 1), when no other tool of the roster has
\* a base name that is base or differs from it by an appended counter.
C16_SuffixWhenAlone ==
    \A res \in collected : \A k \in res.called : \A t \in ToolNames :
        /\ ~catalogue[k].err
        /\ Times(k, t) >= 1
        /\ \A e \in Exposed(res) \ {<<k, t>>} :
               ~Clash(BaseName(e[1], e[2]), BaseName(k, t))
        => NamesFor(res, k, t) = Run(BaseName(k, t), Times(k, t))

C16_Witness ==
    /\ DOMAIN snapshot = {PeerAb}
    /\ catalogue[PeerAb].tools = <<ToolRun, ToolRun, ToolRun>>
    /\ \E res \in collected :
         DOMAIN res.meta =
             {BaseName(PeerAb, ToolRun), Suffixed(BaseName(PeerAb, ToolRun), 2),
              Suffixed(BaseName(PeerAb, ToolRun), 3)}

\* the peers of the snapshot that pass both tests of collectTools
Eligible ==
    {k \in DOMAIN snapshot :
        /\ snapshot[k].Kind \in {ServerKindTool, ServerKindAgentWrapper}
        /\ allowedKinds # {} => snapshot[k].Kind \in allowedKinds}

\* C17: when the /tools/list of a peer failed during aggregation, the roster
\* still has every tool of every eligible peer whose listing succeeded, and
\* the request is not failed by it: GET /v1/tools answers 200 with that
\* roster, and a chat turn is carried on with it.
C17_ListingFailureTolerated ==
    \A res \in collected :
        (\E k \in res.called : catalogue[k].err) =>
            /\ \A k \in Eligible : ~catalogue[k].err =>
                   \A t \in ToolNames :
                       Cardinality(NamesFor(res, k, t)) = Times(k, t)
            /\ http.route = "GET /v1/tools" /\ http.pc = "done" =>
                   http.status = 200 /\ http.body.data = res.descriptors
            /\ http.route = "POST /v1/chat/completions" =>
                   turn.toolParams = res.toolParams /\ turn.warned

\* C18: every roster entry comes from a peer of the snapshot whose kind is
\* tool or agent-wrapper and, with a non-empty allowed-kinds set, is in that
\* set; ListTools is called on no other peer.
C18_OnlyEligiblePeers ==
    \A res \in collected :
        /\ res.called \subseteq Eligible
        /\ \A n \in DOMAIN res.meta : res.meta[n].Server.Instance \in Eligible
        /\ \A n \in DOMAIN res.descriptors :
               res.descriptors[n].Server.Instance \in Eligible

\* an agent-wrapper is kept out by the allowed kinds, an orchestrator by
\* isToolHost though the allowed kinds let it pass, and a tool host is listed
C18_Witness ==
    \E res \in collected :
        /\ \E k \in DOMAIN snapshot \ res.called :
               /\ snapshot[k].Kind = ServerKindOrchestrator
               /\ ServerKindOrchestrator \in allowedKinds
        /\ \E k \in res.called : Len(catalogue[k].tools) > 0
        /\ Len(res.descriptors) > 0

\* C19: with an empty snapshot collectTools calls no peer and returns an
\* empty roster and no error, and no upstream request of the turn has the
\* tools field.
C19_EmptySnapshot ==
    DOMAIN snapshot = {} =>
        /\ \A res \in collected :
               /\ res.called = {}
               /\ res.toolParams = <<>>
               /\ res.descriptors = <<>>
               /\ DOMAIN res.meta = {}
               /\ res.err = {}
        /\ \A n \in DOMAIN upstream : ~upstream[n].set

C19_Witness ==
    /\ DOMAIN snapshot = {}
    /\ collected # {}
    /\ Len(upstream) = 1
    /\ http.pc = "done"
    /\ http.status = 200

\* C20: a chat-completion request that fails shape validation (no model, no
\* messages, a message without role) is answered with HTTP 400.
C20_ValidationIs400 ==
    /\ http.pc = "done"
    /\ http.route = "POST /v1/chat/completions"
    /\ http.req.json
    /\ ValidateFails(http.req)
    => http.status = 400

\* ------------------------------------------------- properties: the turn
\* a decoded chat-completion request that passes Validate has been answered
AnsweredChat ==
    /\ http.pc = "done"
    /\ http.route = "POST /v1/chat/completions"
    /\ http.req.json
    /\ ~ValidateFails(http.req)

\* the answer is the error envelope with the given status and status text
Envelope(status, text) ==
    /\ http.status = status
    /\ DOMAIN http.body = {"error"}
    /\ DOMAIN http.body.error = {"message", "type"}
    /\ http.body.error.type = text

\* C21: a valid chat-completion request is answered 404 with type "Not
\* Found" when its model is not the served one, 400 when stream is set, and
\* 500 when the upstream or a tool call fails; the body is the envelope
\* {error: {message, type}} with the status text as type.
C21_ErrorStatus ==
    AnsweredChat =>
        /\ ~http.req.Stream /\ http.req.Model # ModelName =>
               Envelope(404, "Not Found")
        /\ http.req.Stream /\ http.req.Model = ModelName =>
               Envelope(400, "Bad Request")
        /\ ~http.req.Stream /\ http.req.Model = ModelName /\ http.status # 200 =>
               Envelope(500, "Internal Server Error")

C21_Witness ==
    /\ AnsweredChat
    /\ Len(dispatched) = 1
    /\ Envelope(500, "Internal Server Error")
    /\ http.body.error.message.format = "tool %s failed: %w"

\* C22: a request with an empty model, at least one message and a role on
\* every message passes the model check and is admitted by HandleChat: the
\* tools are collected for it and it is not refused.
C22_EmptyModelAdmitted ==
    /\ http.pc # "idle"
    /\ http.route = "POST /v1/chat/completions"
    /\ http.req.json
    /\ http.req.Model = ""
    /\ ~http.req.Stream
    /\ Len(http.req.Messages) >= 1
    /\ \A i \in DOMAIN http.req.Messages : http.req.Messages[i].Role # ""
    => /\ collected # {}
       /\ Len(upstream) >= 1

Last(seq) == seq[Len(seq)]

\* this step receives an upstream reply that has a message: the assistant
\* message is appended to the conversation
ReplyReceived ==
    /\ turn.pc = "upstream"
    /\ Len(turn'.conversation) = Len(turn.conversation) + 1
    /\ Last(turn'.conversation).role = "assistant"

\* C23: the turn ends with a successful response exactly when an upstream
\* reply has no tool calls: that reply ends the loop with no further
\* upstream or peer request and its content is the content of the response;
\* a reply with tool calls never gives a successful response; after the end
\* nothing more is sent.
C23_DoneOnNoToolCalls ==
    [][/\ ReplyReceived /\ turn'.pending = <<>> =>
              /\ turn'.pc = "done"
              /\ http'.pc = "done"
              /\ http'.status = 200
              /\ http'.body.choices[1].message.content
                     = Last(turn'.conversation).content
              /\ upstream' = upstream
              /\ dispatched' = dispatched
       /\ ReplyReceived /\ turn'.pending # <<>> => http'.status # 200
       /\ (/\ http'.route = "POST /v1/chat/completions"
           /\ http'.status = 200
           /\ http.status # 200) =>
              ReplyReceived /\ turn'.pending = <<>>
       /\ turn.pc = "done" => upstream' = upstream /\ dispatched' = dispatched
      ]_vars

C23_Witness ==
    /\ turn.pc = "done"
    /\ http.status = 200
    /\ Len(upstream) = 2
    /\ Len(dispatched) = 2
    /\ http.body.choices[1].message.content = <<"reply", 2>>

\* the chat turn has ended with a successful response
TurnDone ==
    /\ turn.pc = "done"
    /\ http.route = "POST /v1/chat/completions"
    /\ http.status = 200

\* collectTools returned an error to HandleChat
DiscoveryFailed == \E res \in collected : res.err # {}

\* C24 as stated: when the loop exits, the conversation has the messages of
\* the request, one assistant message per upstream reply and one tool
\* message per dispatched tool call, and nothing else, also when the tool
\* discovery reported an error.
C24_ConversationLength ==
    TurnDone =>
        Len(turn.conversation)
            = Len(http.req.Messages) + Len(upstream) + Len(dispatched)

\* C24: when the loop exits, the conversation has the messages of the
\* request, one assistant message per upstream reply, one tool message per
\* dispatched tool call, and the warning message when the tool discovery
\* reported an error.
C24_ConversationLengthWarned ==
    TurnDone =>
        Len(turn.conversation)
            = Len(http.req.Messages) + Len(upstream) + Len(dispatched)
                + (IF DiscoveryFailed THEN 1 ELSE 0)

C24_Witness ==
    /\ TurnDone
    /\ DiscoveryFailed
    /\ Len(http.req.Messages) = 2
    /\ Len(upstream) = 3
    /\ Len(dispatched) = 3
    /\ Len(turn.conversation) = 9

RECURSIVE Flatten(_)
Flatten(seqs) == IF seqs = <<>> THEN <<>> ELSE Head(seqs) \o Flatten(Tail(seqs))

IsPrefix(short, long) ==
    /\ Len(short) <= Len(long)
    /\ \A i \in DOMAIN short : short[i] = long[i]

\* the ids of the tool calls the upstream has asked for, of the calls sent
\* to the peers and of the tool messages of the conversation, each in order
AskedIds ==
    Flatten([i \in DOMAIN turn.conversation |-> turn.conversation[i].tool_calls])

DispatchedIds == [i \in DOMAIN dispatched |-> dispatched[i].id]

AnsweredIds ==
    LET tools == SelectSeq(turn.conversation, LAMBDA msg : msg.role = "tool")
    IN  [i \in DOMAIN tools |-> tools[i].tool_call_id]

\* from one upstream request to the next the conversation gains an assistant
\* message and then one tool message for each of its tool calls, in order
GainsBetween(prev, cur) ==
    /\ Len(cur) > Len(prev)
    /\ \A i \in DOMAIN prev : cur[i] = prev[i]
    /\ LET reply == cur[Len(prev) + 1]
       IN  /\ reply.role = "assistant"
           /\ Len(reply.tool_calls) >= 1
           /\ Len(cur) = Len(prev) + 1 + Len(reply.tool_calls)
           /\ \A i \in DOMAIN reply.tool_calls :
                  /\ cur[Len(prev) + 1 + i].role = "tool"
                  /\ cur[Len(prev) + 1 + i].tool_call_id = reply.tool_calls[i]

\* C25: the tool calls of a reply are dispatched one at a time in the order
\* of the reply, and between two consecutive upstream requests the
\* conversation gains the assistant message and then exactly one tool
\* message per tool call, in the same order, each with the id of its call.
C25_SerialInOrder ==
    /\ IsPrefix(DispatchedIds, AskedIds)
    /\ IsPrefix(AnsweredIds, DispatchedIds)
    /\ Len(DispatchedIds) - Len(AnsweredIds) <= 1
    /\ turn.pc = "peer" => Len(DispatchedIds) = Len(AnsweredIds) + 1
    /\ \A n \in DOMAIN upstream :
           n > 1 => GainsBetween(upstream[n - 1].Messages, upstream[n].Messages)

C25_Witness ==
    /\ Len(upstream) = 3
    /\ AnsweredIds = <<<<1, 1>>, <<1, 2>>, <<2, 1>>>>
    /\ DispatchedIds = AnsweredIds

\* this step ends the turn with the error of a failed CallTool that names
\* the function of the call, and sends nothing
EndsNamingFunction ==
    /\ turn'.pc = "done"
    /\ http'.pc = "done"
    /\ http'.status = 500
    /\ http'.body.error.message.format = "tool %s failed: %w"
    /\ http'.body.error.message.arg = nextCall(turn.pending).name
    /\ turn'.conversation = turn.conversation
    /\ upstream' = upstream
    /\ dispatched' = dispatched

\* this step appends the result of the call the peer was asked for
ResultAppended ==
    /\ Len(turn'.conversation) = Len(turn.conversation) + 1
    /\ Last(turn'.conversation).role = "tool"
    /\ Last(turn'.conversation).tool_call_id = nextCall(turn.pending).id

\* C26: a failed CallTool is fatal and is not retried: no tool call is sent
\* to a peer twice, and a step taken while a CallTool is awaited appends
\* its result or ends the turn with an error that names the function,
\* without a further peer or upstream request; after the end of the turn
\* nothing is sent.
C26_FailureIsFatal ==
    [][/\ \A i, j \in DOMAIN dispatched' :
              i # j => dispatched'[i].id # dispatched'[j].id
       /\ turn.pc = "peer" /\ ctx' = ctx =>
              ResultAppended \/ EndsNamingFunction
       /\ turn.pc = "done" =>
              upstream' = upstream /\ dispatched' = dispatched /\ turn' = turn
      ]_vars

C26_Witness ==
    /\ turn.pc = "done"
    /\ http.status = 500
    /\ http.body.error.message.format = "tool %s failed: %w"
    /\ http.body.error.message.cause = "call tool failed"
    /\ Len(dispatched) = 2
    /\ Len(turn.pending) = 2
    /\ Len(AnsweredIds) = 1

\* the turn has ended with the given error about the function of the call
\* the loop is at, and that call has not been sent to a peer
RefusedWith(format) ==
    /\ turn.pc = "done"
    /\ http.pc = "done"
    /\ http.status = 500
    /\ http.body.error.message.format = format
    /\ http.body.error.message.arg = nextCall(turn.pending).name
    /\ \A i \in DOMAIN dispatched : dispatched[i].id # nextCall(turn.pending).id

\* C27: a tool call whose function name is not in the index, or whose
\* arguments are not empty and not valid JSON, ends the turn with an error
\* before CallTool is called for it; a call with an empty arguments string
\* is sent to the peer with a nil argument map.
C27_RefusedBeforeCallTool ==
    turn.pending # <<>> =>
        LET call == nextCall(turn.pending)
        IN  /\ call.name \notin DOMAIN turn.meta =>
                   RefusedWith("unknown tool '%s'")
            /\ call.name \in DOMAIN turn.meta /\ call.args \notin {"", "{}"} =>
                   RefusedWith("invalid tool arguments for %s: %w")
            /\ turn.pc = "peer" =>
                   /\ call.name \in DOMAIN turn.meta
                   /\ Last(dispatched).id = call.id
                   /\ Last(dispatched).server = turn.meta[call.name].Server.Instance
                   /\ Last(dispatched).tool = turn.meta[call.name].ToolName
                   /\ call.args = "" => Last(dispatched).args = "nil"
                   /\ call.args = "{}" => Last(dispatched).args = "map"

C27_Witness ==
    /\ Len(turn.pending) = 1
    /\ RefusedWith("invalid tool arguments for %s: %w")
    /\ Len(dispatched) = 2
    /\ dispatched[1].args = "nil"
    /\ dispatched[2].args = "map"

\* C28: every HandleChat invocation terminates because the request runs
\* under a deadline: while a chat-completion request is served, and however
\* many rounds of successful tool calls the upstream has asked for, its
\* context has a deadline.
C28_DeadlineImposed ==
    http.pc = "serving" /\ http.route = "POST /v1/chat/completions" =>
        ctx.deadline # "none"

UnknownToolName ==
    \/ peer.server = "toolServer"
          /\ peer.req.name \notin {def.Name : def \in HttpTools}
    \/ peer.server = "agentToolServer" /\ peer.req.name # AgentToolName

\* the arguments of the request are not those the tool takes
MalformedArguments ==
    \/ peer.server = "toolServer"
          /\ \/ extractString(peer.req.arguments, "url").err # ""
             \/ parseRequestURIFails(extractString(peer.req.arguments, "url").str)
    \/ peer.server = "agentToolServer"
          /\ TrimSpace(peer.req.prompt) = <<>>
          /\ peer.req.messages = 0

\* C30: on the HTTP-methods server and on the agent-wrapper server, POST
\* /tools/call is answered 400 when the server does not expose the tool the
\* request names, and 400 when the arguments are malformed.
C30_Rejects400 ==
    peer.pc = "done" /\ peer.req.json =>
        /\ UnknownToolName => peer.status = 400
        /\ MalformedArguments => peer.status = 400

\* the second half alone, for requests that name a tool of the server
MalformedIs400 ==
    peer.pc = "done" /\ peer.req.json /\ ~UnknownToolName /\ MalformedArguments
        => peer.status = 400

\* ------------------------------------- properties: functions of strings
\* C31: for every instance name the tool of the agent wrapper is named
\* "agent_" followed by the mediator's slug of the instance.
C31_AgentToolNameIsSlug ==
    pure.fn = "sanitizeToolName" =>
        pure.outs[1] = <<"a", "g", "e", "n", "t", "_">> \o slugify(pure.input.str)

\* C32: slugify is idempotent: applied to its own result it returns it.
C32_SlugIdempotent ==
    pure.fn = "slugify" /\ Len(pure.outs) = 2 => pure.outs[2] = pure.outs[1]

C32_Witness ==
    /\ pure.fn = "slugify"
    /\ pure.input.str = <<"\t", "A", ":">>
    /\ pure.outs = <<<<"a", "_">>, <<"a", "_">>>>

\* the map has been announced and the records have been parsed
RoundTripDone == pure.fn = "announce" /\ Len(pure.outs) = 2

\* trimming leaves the string as it is
Trimmed(str) == TrimSpace(str) = str

\* C33 as stated: every Text map whose keys are not empty after trimming
\* comes back from the records "k=v" of the announcer, parsed as the
\* registry parses them.
C33_TxtRoundTrip ==
    /\ RoundTripDone
    /\ \A k \in DOMAIN pure.input.text : TrimSpace(k) # <<>>
    => pure.outs[2] = pure.input.text

\* C33: a Text map comes back from the records of the announcer, parsed as
\* the registry parses them, when its keys are trimmed, not empty and
\* without '=', and its values are trimmed.
C33_TxtRoundTripTrimmed ==
    /\ RoundTripDone
    /\ \A k \in DOMAIN pure.input.text :
           /\ k # <<>>
           /\ Trimmed(k)
           /\ \A n \in DOMAIN k : k[n] # "="
           /\ Trimmed(pure.input.text[k])
    => pure.outs[2] = pure.input.text

C33_Witness ==
    /\ RoundTripDone
    /\ DOMAIN pure.input.text = {<<"k">>, <<"j">>}
    /\ pure.input.text[<<"k">>] = <<"a", "=", "b">>
    /\ pure.input.text[<<"j">>] = <<>>
    /\ pure.outs[1] = <<<<"k", "=", "a", "=", "b">>, <<"j", "=">>>>
    /\ pure.outs[2] = pure.input.text

\* ------------------------------------------------ properties: announcer
\* a call of Stop returns in this step
StopReturns ==
    \E c \in Stoppers : announcer.pc[c] # "idle" /\ announcer'.pc[c] = "idle"

\* C34: Stop is idempotent: over any number of calls, one after the other
\* or at the same time, the registration is shut down at most once; it has
\* been shut down once when a call returns, and after that no call does
\* anything to it.
C34_StopOnce ==
    [][/\ announcer'.shutdowns <= 1
       /\ StopReturns /\ announcer.server = "registered" =>
              announcer'.shutdowns = 1
       /\ announcer.done => announcer'.shutdowns = announcer.shutdowns
      ]_vars

C34_Witness ==
    /\ announcer.server = "registered"
    /\ announcer.shutdowns = 1
    /\ \A c \in Stoppers : announcer.calls[c] = MaxStops /\ announcer.pc[c] = "idle"

\* ---------------------------------------- properties: registry, continued
\* the fields of a ServerInfo the registry fills in
SameRecord(r, q) ==
    /\ r.Instance = q.Instance
    /\ r.Kind = q.Kind
    /\ r.LastSeen = q.LastSeen
    /\ r.Text = q.Text

\* C35: a prune pass takes now - ttl as its threshold, removes exactly the
\* records last seen strictly before it, with one removed event for each,
\* and leaves every other record (one seen exactly at the threshold too) in
\* the snapshot as it was, without an event.
C35_PruneExact ==
    [][/\ prune.pc = "select" /\ prune'.pc = "lock" =>
              prune'.threshold = now - EntryTTL
       /\ muHolder = "prune" /\ nEmitted' # nEmitted =>
              \E key \in DOMAIN snapshot :
                  /\ snapshot[key].LastSeen < prune.threshold
                  /\ key \in DOMAIN prune.clone
                  /\ DOMAIN prune'.clone = DOMAIN prune.clone \ {key}
                  /\ nEmitted' = nEmitted + 1
                  /\ lastEvent'[key] = [Type |-> EventRemoved, seq |-> nEmitted']
       /\ muHolder = "prune" /\ muHolder' = "none" =>
              /\ DOMAIN snapshot'
                     = {k \in DOMAIN snapshot :
                           snapshot[k].LastSeen >= prune.threshold}
              /\ \A k \in DOMAIN snapshot' : SameRecord(snapshot'[k], snapshot[k])
              /\ \A k \in DOMAIN snapshot \ DOMAIN snapshot' :
                     lastEvent[k].Type = EventRemoved
              /\ \A k \in DOMAIN snapshot' : lastEvent[k].Type # EventRemoved
              /\ nEmitted' = nEmitted
      ]_vars

C35_Witness ==
    /\ prune.pc = "select"
    /\ muHolder = "none"
    /\ now = prune.threshold + EntryTTL
    /\ lastEvent[<<"x">>].Type = EventRemoved
    /\ <<"x">> \notin DOMAIN snapshot
    /\ <<"y">> \in DOMAIN snapshot
    /\ snapshot[<<"y">>].LastSeen = prune.threshold

\* the key observe has put in the map it is about to store
ObservedKey(k) ==
    /\ k \in DOMAIN consume.updated
    /\ lastEvent[k].seq = nEmitted
    /\ lastEvent[k].Type \in {EventAdded, EventUpdated}

\* C36: the stored map changes only by the store of a writer that holds
\* d.mu, never while a writer works on its copy; the two writers are never
\* between load and store at once; the store of observe is the current map
\* with the observed record put in, the store of pruneStale the current map
\* less the records it removed. So a key leaves the snapshot only by a prune
\* pass that reported it removed, and enters it only by the observation of
\* that key.
C36_CopyOnWrite ==
    /\ [](consume.pc = "store" <=> muHolder = "observe")
    /\ [](prune.pc = "range" <=> muHolder = "prune")
    /\ [][muHolder' # "none" => snapshot' = snapshot]_vars
    /\ [][muHolder = "none" => snapshot' = snapshot]_vars
    /\ [][muHolder = "observe" /\ muHolder' = "none" =>
             \E key \in DOMAIN snapshot' :
                 /\ ObservedKey(key)
                 /\ DOMAIN snapshot' = DOMAIN snapshot \cup {key}
                 /\ SameRecord(snapshot'[key], consume.updated[key])
                 /\ \A k \in DOMAIN snapshot \ {key} :
                        SameRecord(snapshot'[k], snapshot[k])]_vars
    /\ [][\A k \in Instances :
             /\ k \in DOMAIN snapshot /\ k \notin DOMAIN snapshot' =>
                    /\ muHolder = "prune"
                    /\ lastEvent[k].Type = EventRemoved
                    /\ snapshot[k].LastSeen < prune.threshold
             /\ k \notin DOMAIN snapshot /\ k \in DOMAIN snapshot' =>
                    /\ muHolder = "observe"
                    /\ ObservedKey(k)]_vars

\* observe stores the record of y while a prune pass that is to remove x
\* waits for d.mu
C36_Witness ==
    /\ muHolder = "observe"
    /\ prune.pc = "lock"
    /\ <<"x">> \in DOMAIN snapshot
    /\ snapshot[<<"x">>].LastSeen < prune.threshold
    /\ <<"y">> \in DOMAIN consume.updated
    /\ <<"y">> \notin DOMAIN snapshot

\* C37: whatever the order of Subscribe, Unsubscribe, Stop and the
\* broadcasts, a channel is closed once at most (the step that closes it
\* takes it out of the registered set, and it never comes back), no
\* broadcast sends on a closed channel, and nothing but its reader touches a
\* channel that is not registered: an Unsubscribe of it does nothing.
C37_ClosedOnce ==
    /\ [](~panicked)
    /\ [](\A c \in Channels : chans[c].closed => chans[c].made /\ c \notin subscribers)
    /\ [][\A c \in Channels :
             /\ ~chans[c].closed /\ chans'[c].closed =>
                    c \in subscribers /\ c \notin subscribers'
             /\ chans[c].made /\ c \notin subscribers =>
                    /\ c \notin subscribers'
                    /\ chans'[c].closed = chans[c].closed
                    /\ chans'[c].cap = chans[c].cap
                    /\ Len(chans'[c].buf) <= Len(chans[c].buf)
                    /\ \A n \in DOMAIN chans'[c].buf :
                           chans'[c].buf[n].seq \in {e.seq : e \in Buffered(c)}]_vars

\* the reading subscriber got the first event and unsubscribed, a second
\* event was broadcast, and Stop has closed the other channel
C37_Witness ==
    /\ stop = "done"
    /\ nEmitted >= 2
    /\ chans["c2"].closed
    /\ Seqs(chans["c2"].buf) = <<1>>
    /\ chans["c1"].closed

\* ------------------------------- properties: the turn and the registry
\* the roster and the index collectTools builds from the stored map of this
\* state
RosterOf(order) ==
    [toolParams |-> collectTools(order).toolParams,
     meta |-> collectTools(order).meta]

\* C38: the roster and the index of a request are those collectTools built
\* from the stored map as it was when the request came in, every entry of
\* the index holding the record of that map; they stay the same to the end
\* of the request whatever the registry stores meanwhile; every upstream
\* request carries that roster and every tool call goes to the peer and the
\* tool the index has for its name.
C38_RosterFixed ==
    [][/\ http.pc = "idle" /\ http'.pc = "serving" =>
              /\ \E order \in Orders(DOMAIN snapshot) :
                     [toolParams |-> turn'.toolParams, meta |-> turn'.meta]
                         = RosterOf(order)
              /\ \A name \in DOMAIN turn'.meta :
                     LET srv == turn'.meta[name].Server
                     IN  /\ srv.Instance \in DOMAIN snapshot
                         /\ SameRecord(srv, snapshot[srv.Instance])
       /\ http.pc = "serving" =>
              /\ turn'.toolParams = turn.toolParams
              /\ turn'.meta = turn.meta
       /\ Len(upstream') > Len(upstream) =>
              /\ Len(upstream') = Len(upstream) + 1
              /\ Last(upstream').Tools = turn'.toolParams
              /\ http.pc = "serving" => Last(upstream').Tools = upstream[1].Tools
       /\ Len(dispatched') > Len(dispatched) =>
              \E name \in DOMAIN turn.meta :
                  /\ Last(dispatched').server = turn.meta[name].Server.Instance
                  /\ Last(dispatched').tool = turn.meta[name].ToolName
                  /\ \E n \in DOMAIN upstream[1].Tools :
                         upstream[1].Tools[n].Name = name
      ]_vars

\* the request came in when the registry had x alone; since then x has been
\* pruned and y observed, and the second upstream request, sent after a call
\* of x's tool, has the roster of the first
C38_Witness ==
    /\ http.pc = "serving"
    /\ turn.pc = "upstream"
    /\ Len(upstream) = 2
    /\ DOMAIN snapshot = {<<"y">>}
    /\ Len(dispatched) = 1
    /\ dispatched[1].server = <<"x">>
    /\ upstream[2].Tools = upstream[1].Tools
    /\ Len(upstream[2].Tools) = 1

\* ------------------------------------------------ properties: admission
\* the request is answered with this error and nothing else has happened
RejectedWith(err) ==
    /\ http'.pc = "done"
    /\ http'.status = statusOf(err)
    /\ http'.body = [error |-> [message |-> [format |-> err.format,
                                             arg |-> err.arg,
                                             cause |-> err.cause],
                                type |-> StatusText(statusOf(err))]]
    /\ collected' = collected
    /\ upstream' = upstream
    /\ dispatched' = dispatched
    /\ turn' = turn
    /\ peer' = peer
    /\ snapshot' = snapshot

\* C39: a request HandleChat rejects is answered with the first error in
\* the order validation, streaming, model, upstream client, and leaves no
\* trace: collectTools has not run (no read of the registry, no ListTools
\* call on a peer), nothing was sent upstream or to a peer. Any other
\* request has collected the tools and sent its first upstream request.
C39_AdmissionOrder ==
    [][http.pc = "idle" /\ http'.route = "POST /v1/chat/completions"
           /\ http'.req.json =>
          LET r == http'.req
          IN  IF ValidateFails(r) THEN RejectedWith(Validate(r))
              ELSE IF r.Stream THEN RejectedWith(ErrStreamingUnsupported)
              ELSE IF r.Model # "" /\ ~supportsModel(r.Model)
              THEN RejectedWith(Error("ErrModelUnsupported", "%w: %s",
                                      <<r.Model>>, ErrModelUnsupported.format))
              ELSE IF openaiClient = "nil"
              THEN RejectedWith(ErrClientNotConfigured)
              ELSE /\ http'.pc = "serving"
                   /\ collected' # {}
                   /\ Len(upstream') = 1
      ]_vars

\* a streaming request for a model the mediator does not serve, sent to a
\* mediator without upstream client, was refused for the streaming
C39_Witness ==
    /\ http.pc = "done"
    /\ http.route = "POST /v1/chat/completions"
    /\ http.req.json
    /\ ~ValidateFails(http.req)
    /\ http.req.Stream
    /\ http.req.Model = OtherModel
    /\ openaiClient = "nil"
    /\ DOMAIN snapshot # {}
    /\ http.body.error.message.format = ErrStreamingUnsupported.format
    /\ collected = {}
    /\ upstream = <<>>

\* ------------------------------------ properties: the end of browsing
\* C40: while ctx is live, consumeEntries is running whether or not Browse
\* has returned, so that entries arriving later are still observed, and
\* pruneLoop is running too.
C40_LoopsOutliveBrowse ==
    (started /\ ~cancelled) =>
        /\ consume.pc # "exited"
        /\ prune.pc # "exited"

====
